---- MODULE Spec2Model ----
(***************************************************************************)
(* Model of the v18 blockchain wire-to-model conversions of corepc         *)
(* (types/src/v18/blockchain/into.rs) and of the helpers they call.        *)
(*                                                                         *)
(* Strings are sequences of ASCII codes, identifiers are sequences of      *)
(* HashBytes bytes, wide integers are big-endian sequences of 16-bit       *)
(* limbs (four limbs for the 64-bit wire width, two for u32), so that      *)
(* every value keeps its true width.                                       *)
(***************************************************************************)
EXTENDS Integers, Sequences, FiniteSets, TLC

VARIABLES
    op,        \* which conversion the caller invokes on the wire response
    wire,      \* the deserialized wire response, consumed by the conversion
    expected,  \* Some(model values the wire response was built from), or None
    pc,        \* "start" before the conversion ran, "done" after it returned
    result,    \* what the conversion returned: Ok(model) or Err(error)
    tasks,     \* the locals of each of the conversions running concurrently
    node,      \* the daemon an integration test talks to: chain and wallet
    test       \* the locals of the integration test that is running

vars == <<op, wire, expected, pc, result, tasks, node, test>>

(***************************************************************************)
(* Bounds of the explored input space.                                     *)
(***************************************************************************)
MaxList == 3      \* longest identifier list of the list conversions
MaxMap == 2       \* most entries of a verbose wire map
MaxEdits == 2     \* most fields of the scenario record replaced at once
MaxSteps == 4     \* most calls of source() in one walk along a chain of causes

(***************************************************************************)
(* Result<T, E>                                                            *)
(***************************************************************************)
Ok(v) == [tag |-> "Ok", val |-> v]
Err(e) == [tag |-> "Err", err |-> e]
NoResult == [tag |-> "None"]

IsOk(r) == r.tag = "Ok"
IsErr(r) == r.tag = "Err"

Min(S) == CHOOSE x \in S : \A y \in S : x <= y

RECURSIVE SeqsUpTo(_, _)
SeqsUpTo(S, n) ==
    IF n = 0 THEN {<<>>}
    ELSE LET shorter == SeqsUpTo(S, n - 1)
         IN  shorter \cup {Append(s, x) : s \in {t \in shorter : Len(t) = n - 1}, x \in S}

Reverse(s) == [i \in 1..Len(s) |-> s[Len(s) + 1 - i]]

(***************************************************************************)
(* Hex strings and fixed-length identifiers (bitcoin::Txid / Wtxid).       *)
(***************************************************************************)
HashBytes == 32

IsHexDigit(c) == (c >= 48 /\ c <= 57) \/ (c >= 97 /\ c <= 102) \/ (c >= 65 /\ c <= 70)

HexVal(c) ==
    IF c >= 48 /\ c <= 57 THEN c - 48
    ELSE IF c >= 97 /\ c <= 102 THEN c - 87
    ELSE c - 55

LowerHexDigit(n) == IF n < 10 THEN 48 + n ELSE 87 + n

\* <[u8; 32]>::from_hex: the length is checked first, then digits in order.
decode_hex_array(s) ==
    IF Len(s) # 2 * HashBytes
    THEN Err([kind |-> "InvalidLength", expected |-> 2 * HashBytes, invalid |-> Len(s)])
    ELSE LET bad == {i \in 1..Len(s) : ~IsHexDigit(s[i])}
         IN  IF bad # {}
             THEN Err([kind |-> "InvalidChar", invalid |-> s[Min(bad)], pos |-> Min(bad) - 1])
             ELSE Ok([i \in 1..HashBytes |-> 16 * HexVal(s[2 * i - 1]) + HexVal(s[2 * i])])

\* Txid / Wtxid are displayed backwards: the decoded bytes are reversed.
parse_hash(s) ==
    LET d == decode_hex_array(s)
    IN  IF IsErr(d) THEN d ELSE Ok(Reverse(d.val))

\* Display of Txid / Wtxid: lower-case hex of the bytes, last byte first.
display_hash(id) ==
    [i \in 1..(2 * HashBytes) |->
        LET b == id[HashBytes + 1 - ((i + 1) \div 2)]
        IN  IF i % 2 = 1 THEN LowerHexDigit(b \div 16) ELSE LowerHexDigit(b % 16)]

ToUpper(s) == [i \in 1..Len(s) |-> IF s[i] >= 97 /\ s[i] <= 122 THEN s[i] - 32 ELSE s[i]]

IdA == [i \in 1..HashBytes |-> i]
IdB == [i \in 1..HashBytes |-> (7 * i + 160) % 256]

HexA == display_hash(IdA)
HexB == display_hash(IdB)
HexAUpper == ToUpper(HexA)
NotHex == <<110, 111, 116, 45, 104, 101, 120>>          \* "not-hex"
BadChar == [HexB EXCEPT ![11] = 103]                    \* a 'g' at offset 10
ShortHex == SubSeq(HexA, 1, 2 * HashBytes - 1)          \* 63 hex digits
EmptyStr == <<>>                                        \* ""

ListPool == {HexA, HexB, NotHex, BadChar, EmptyStr}
KeyPool == {HexA, HexAUpper, HexB, NotHex, BadChar, EmptyStr}

(***************************************************************************)
(* Identifier lists: iter().map(parse).collect::<Result<Vec<_>, _>>()      *)
(***************************************************************************)
RECURSIVE collect_from(_, _, _)
collect_from(list, i, acc) ==
    IF i > Len(list) THEN Ok(acc)
    ELSE LET r == parse_hash(list[i])
         IN  IF IsErr(r) THEN r ELSE collect_from(list, i + 1, Append(acc, r.val))

RECURSIVE collect_last_from(_, _, _, _)
collect_last_from(list, i, acc, last) ==
    IF i > Len(list) THEN (IF IsErr(last) THEN last ELSE Ok(acc))
    ELSE LET r == parse_hash(list[i])
         IN  IF IsErr(r) THEN collect_last_from(list, i + 1, acc, r)
             ELSE collect_last_from(list, i + 1, Append(acc, r.val), last)

\* mutation: every element is parsed and the last failure is reported
collect_txids_last_error(list) == collect_last_from(list, 1, <<>>, Ok(<<>>))

RECURSIVE collect_reversed_from(_, _, _)
collect_reversed_from(list, i, acc) ==
    IF i > Len(list) THEN Ok(acc)
    ELSE LET r == parse_hash(list[i])
         IN  IF IsErr(r) THEN r ELSE collect_reversed_from(list, i + 1, <<r.val>> \o acc)

\* mutation: each parsed element is put at the front of the result
collect_txids_reversed(list) == collect_reversed_from(list, 1, <<>>)

collect_txids(list) == collect_from(list, 1, <<>>)

GetMempoolAncestors_into_model(w) == collect_txids(w)

\* mutation: the descendants are collected in reverse order
GetMempoolDescendants_into_model_reversed(w) == collect_txids_reversed(w)

GetMempoolDescendants_into_model(w) == collect_txids(w)

\* a panic unwinding out of the conversion instead of a returned value
Panic == [tag |-> "Panic"]

\* mutation: the collected result is unwrapped, Err aborts the caller
GetRawMempool_into_model_unwrap(w) ==
    LET r == collect_txids(w) IN IF IsErr(r) THEN Panic ELSE r

GetRawMempool_into_model(w) == collect_txids(w)

ListOps == {"GetMempoolAncestors", "GetMempoolDescendants", "GetRawMempool"}
ListInputs == SeqsUpTo(ListPool, MaxList)

(***************************************************************************)
(* Wide integers and the numeric-narrowing helper crate::to_u32.           *)
(* A 64-bit wire value is <<l3, l2, l1, l0>> with 16-bit limbs, most       *)
(* significant first; a u32 is <<l1, l0>>.                                 *)
(***************************************************************************)
LimbMax == 65535

U64(hi, lo) == <<0, hi, lo \div 65536, lo % 65536>>    \* hi * 2^32 + lo, small hi
Small(n) == <<0, 0, n \div 65536, n % 65536>>
U32(n) == <<n \div 65536, n % 65536>>
U32MaxWide == <<0, 0, LimbMax, LimbMax>>
Pow32With(v) == <<0, 1, v[3], v[4]>>                   \* v + 2^32 for v < 2^32

FitsU32(value) == value[1] = 0 /\ value[2] = 0

to_u32(value, field) ==
    IF FitsU32(value)
    THEN Ok(<<value[3], value[4]>>)
    ELSE Err([kind |-> "Overflow", field |-> field, value |-> value])

(***************************************************************************)
(* Monetary amounts.  A wire amount is a decimal number of bitcoin:         *)
(* a sign, the whole part and the digits after the decimal point.  The     *)
(* model amount is a number of satoshis.                                   *)
(***************************************************************************)
AmountDecimals == 8

Pow10(n) == IF n = 0 THEN 1 ELSE IF n = 1 THEN 10 ELSE IF n = 2 THEN 100
            ELSE IF n = 3 THEN 1000 ELSE IF n = 4 THEN 10000 ELSE IF n = 5 THEN 100000
            ELSE IF n = 6 THEN 1000000 ELSE IF n = 7 THEN 10000000 ELSE 100000000

RECURSIVE DigitsValue(_, _)
\* the first n digits of frac read as a fraction scaled to AmountDecimals places
DigitsValue(frac, n) ==
    IF n = 0 THEN 0
    ELSE DigitsValue(frac, n - 1) + frac[n] * Pow10(AmountDecimals - n)

parse_amount(a) ==
    IF a.neg THEN Err([kind |-> "OutOfRange", negative |-> TRUE])
    ELSE IF \E i \in 1..Len(a.frac) : i > AmountDecimals /\ a.frac[i] # 0
    THEN Err([kind |-> "TooPrecise", position |-> Len(a.frac)])
    ELSE LET n == IF Len(a.frac) < AmountDecimals THEN Len(a.frac) ELSE AmountDecimals
         IN  Ok(a.whole * Pow10(AmountDecimals) + DigitsValue(a.frac, n))

RECURSIVE StripZeros(_)
StripZeros(d) ==
    IF d = <<>> \/ d[Len(d)] # 0 THEN d ELSE StripZeros(SubSeq(d, 1, Len(d) - 1))

\* shortest decimal rendering of a number of satoshis, in bitcoin
display_btc(sat) ==
    [neg |-> FALSE,
     whole |-> sat \div Pow10(AmountDecimals),
     frac |-> StripZeros([i \in 1..AmountDecimals |->
                 (sat \div Pow10(AmountDecimals - i)) % 10])]

MempoolEntryFees_into_model(f) ==
    LET base == parse_amount(f.base)
        modified == parse_amount(f.modified)
        ancestor == parse_amount(f.ancestor)
        descendant == parse_amount(f.descendant)
    IN  IF IsErr(base) THEN Err([variant |-> "Base", cause |-> base.err])
        ELSE IF IsErr(modified) THEN Err([variant |-> "Modified", cause |-> modified.err])
        ELSE IF IsErr(ancestor) THEN Err([variant |-> "Ancestor", cause |-> ancestor.err])
        ELSE IF IsErr(descendant) THEN Err([variant |-> "Descendant", cause |-> descendant.err])
        ELSE Ok([base |-> base.val, modified |-> modified.val,
                 ancestor |-> ancestor.val, descendant |-> descendant.val])

(***************************************************************************)
(* MempoolEntry::into_model                                                *)
(***************************************************************************)
None == [tag |-> "Absent"]
Some(v) == [tag |-> "Present", val |-> v]

\* impl From<NumericError> for MempoolEntryError, applied by `?`
MempoolEntryError_from(e) == [variant |-> "Numeric", cause |-> e]

\* Result::map_err(E::Variant)
map_err(r, variant) == IF IsErr(r) THEN Err([variant |-> variant, cause |-> r.err]) ELSE r

\* the error conversion `?` applies to a NumericError
numeric(r) == IF IsErr(r) THEN Err(MempoolEntryError_from(r.err)) ELSE r

\* mutation: a wtxid that fails to parse is replaced by the all-zero identifier
MempoolEntry_fields_wtxid_default(w) ==
    [size |-> numeric(to_u32(w.size, "size")),
     time |-> numeric(to_u32(w.time, "time")),
     height |-> numeric(to_u32(w.height, "height")),
     descendant_count |-> numeric(to_u32(w.descendant_count, "descendant_count")),
     descendant_size |-> numeric(to_u32(w.descendant_size, "descendant_size")),
     ancestor_count |-> numeric(to_u32(w.ancestor_count, "ancestor_count")),
     ancestor_size |-> numeric(to_u32(w.ancestor_size, "ancestor_size")),
     wtxid |-> IF IsErr(parse_hash(w.wtxid)) THEN Ok([i \in 1..HashBytes |-> 0])
               ELSE parse_hash(w.wtxid),
     fees |-> map_err(MempoolEntryFees_into_model(w.fees), "Fees"),
     depends |-> map_err(collect_txids(w.depends), "Depends"),
     spent_by |-> map_err(collect_txids(w.spent_by), "SpentBy")]

\* mutation: ancestor_size is narrowed under the field name of descendant_size
MempoolEntry_fields_mislabel(w) ==
    [size |-> numeric(to_u32(w.size, "size")),
     time |-> numeric(to_u32(w.time, "time")),
     height |-> numeric(to_u32(w.height, "height")),
     descendant_count |-> numeric(to_u32(w.descendant_count, "descendant_count")),
     descendant_size |-> numeric(to_u32(w.descendant_size, "descendant_size")),
     ancestor_count |-> numeric(to_u32(w.ancestor_count, "ancestor_count")),
     ancestor_size |-> numeric(to_u32(w.ancestor_size, "descendant_size")),
     wtxid |-> map_err(parse_hash(w.wtxid), "Wtxid"),
     fees |-> map_err(MempoolEntryFees_into_model(w.fees), "Fees"),
     depends |-> map_err(collect_txids(w.depends), "Depends"),
     spent_by |-> map_err(collect_txids(w.spent_by), "SpentBy")]

\* mutation: a spent_by failure is mapped with E::Depends
MempoolEntry_fields_spent_by_as_depends(w) ==
    [size |-> numeric(to_u32(w.size, "size")),
     time |-> numeric(to_u32(w.time, "time")),
     height |-> numeric(to_u32(w.height, "height")),
     descendant_count |-> numeric(to_u32(w.descendant_count, "descendant_count")),
     descendant_size |-> numeric(to_u32(w.descendant_size, "descendant_size")),
     ancestor_count |-> numeric(to_u32(w.ancestor_count, "ancestor_count")),
     ancestor_size |-> numeric(to_u32(w.ancestor_size, "ancestor_size")),
     wtxid |-> map_err(parse_hash(w.wtxid), "Wtxid"),
     fees |-> map_err(MempoolEntryFees_into_model(w.fees), "Fees"),
     depends |-> map_err(collect_txids(w.depends), "Depends"),
     spent_by |-> map_err(collect_txids(w.spent_by), "Depends")]

RECURSIVE collect_valid_from(_, _, _)
collect_valid_from(list, i, acc) ==
    IF i > Len(list) THEN Ok(acc)
    ELSE LET r == parse_hash(list[i])
         IN  collect_valid_from(list, i + 1, IF IsErr(r) THEN acc ELSE Append(acc, r.val))

\* mutation: elements of depends that fail to parse are skipped (filter_map)
MempoolEntry_fields_depends_skips_invalid(w) ==
    [size |-> numeric(to_u32(w.size, "size")),
     time |-> numeric(to_u32(w.time, "time")),
     height |-> numeric(to_u32(w.height, "height")),
     descendant_count |-> numeric(to_u32(w.descendant_count, "descendant_count")),
     descendant_size |-> numeric(to_u32(w.descendant_size, "descendant_size")),
     ancestor_count |-> numeric(to_u32(w.ancestor_count, "ancestor_count")),
     ancestor_size |-> numeric(to_u32(w.ancestor_size, "ancestor_size")),
     wtxid |-> map_err(parse_hash(w.wtxid), "Wtxid"),
     fees |-> map_err(MempoolEntryFees_into_model(w.fees), "Fees"),
     depends |-> collect_valid_from(w.depends, 1, <<>>),
     spent_by |-> map_err(collect_txids(w.spent_by), "SpentBy")]

\* mutation: every narrowing is labelled with the name of the first field
MempoolEntry_fields_one_label(w) ==
    [size |-> numeric(to_u32(w.size, "size")),
     time |-> numeric(to_u32(w.time, "size")),
     height |-> numeric(to_u32(w.height, "size")),
     descendant_count |-> numeric(to_u32(w.descendant_count, "size")),
     descendant_size |-> numeric(to_u32(w.descendant_size, "size")),
     ancestor_count |-> numeric(to_u32(w.ancestor_count, "size")),
     ancestor_size |-> numeric(to_u32(w.ancestor_size, "size")),
     wtxid |-> map_err(parse_hash(w.wtxid), "Wtxid"),
     fees |-> map_err(MempoolEntryFees_into_model(w.fees), "Fees"),
     depends |-> map_err(collect_txids(w.depends), "Depends"),
     spent_by |-> map_err(collect_txids(w.spent_by), "SpentBy")]

\* the fallible `let` statements of into_model, each with its error mapping
MempoolEntry_fields(w) ==
    [size |-> numeric(to_u32(w.size, "size")),
     time |-> numeric(to_u32(w.time, "time")),
     height |-> numeric(to_u32(w.height, "height")),
     descendant_count |-> numeric(to_u32(w.descendant_count, "descendant_count")),
     descendant_size |-> numeric(to_u32(w.descendant_size, "descendant_size")),
     ancestor_count |-> numeric(to_u32(w.ancestor_count, "ancestor_count")),
     ancestor_size |-> numeric(to_u32(w.ancestor_size, "ancestor_size")),
     wtxid |-> map_err(parse_hash(w.wtxid), "Wtxid"),
     fees |-> map_err(MempoolEntryFees_into_model(w.fees), "Fees"),
     depends |-> map_err(collect_txids(w.depends), "Depends"),
     spent_by |-> map_err(collect_txids(w.spent_by), "SpentBy")]

\* mutation: wtxid is parsed before the numeric fields are narrowed
MempoolEntry_order_wtxid_first ==
    <<"wtxid", "size", "time", "height", "descendant_count", "descendant_size",
      "ancestor_count", "ancestor_size", "fees", "depends", "spent_by">>

\* the order in which the statements run; each returns early on failure
MempoolEntry_order ==
    <<"size", "time", "height", "descendant_count", "descendant_size", "ancestor_count",
      "ancestor_size", "wtxid", "fees", "depends", "spent_by">>

\* mutation: the narrowed size is stored as vsize and size is left absent
MempoolEntry_return_vsize(w, f) ==
    LET failed == {i \in 1..Len(MempoolEntry_order) : IsErr(f[MempoolEntry_order[i]])}
    IN  IF failed # {} THEN Err(f[MempoolEntry_order[Min(failed)]].err)
        ELSE Ok([vsize |-> Some(f.size.val),
                 size |-> None,
                 weight |-> None,
                 time |-> f.time.val,
                 height |-> f.height.val,
                 descendant_count |-> f.descendant_count.val,
                 descendant_size |-> f.descendant_size.val,
                 ancestor_count |-> f.ancestor_count.val,
                 ancestor_size |-> f.ancestor_size.val,
                 wtxid |-> f.wtxid.val,
                 fees |-> f.fees.val,
                 depends |-> f.depends.val,
                 spent_by |-> f.spent_by.val,
                 bip125_replaceable |-> Some(w.bip125_replaceable),
                 unbroadcast |-> None])

\* mutation: ancestor_size and descendant_size are exchanged in the model
MempoolEntry_return_swapped_sizes(w, f) ==
    LET failed == {i \in 1..Len(MempoolEntry_order) : IsErr(f[MempoolEntry_order[i]])}
    IN  IF failed # {} THEN Err(f[MempoolEntry_order[Min(failed)]].err)
        ELSE Ok([vsize |-> None,
                 size |-> Some(f.size.val),
                 weight |-> None,
                 time |-> f.time.val,
                 height |-> f.height.val,
                 descendant_count |-> f.descendant_count.val,
                 descendant_size |-> f.ancestor_size.val,
                 ancestor_count |-> f.ancestor_count.val,
                 ancestor_size |-> f.descendant_size.val,
                 wtxid |-> f.wtxid.val,
                 fees |-> f.fees.val,
                 depends |-> f.depends.val,
                 spent_by |-> f.spent_by.val,
                 bip125_replaceable |-> Some(w.bip125_replaceable),
                 unbroadcast |-> None])

\* mutation: unbroadcast is filled in although the v18 wire format lacks it
MempoolEntry_return_unbroadcast(w, f) ==
    LET failed == {i \in 1..Len(MempoolEntry_order) : IsErr(f[MempoolEntry_order[i]])}
    IN  IF failed # {} THEN Err(f[MempoolEntry_order[Min(failed)]].err)
        ELSE Ok([vsize |-> None,
                 size |-> Some(f.size.val),
                 weight |-> None,
                 time |-> f.time.val,
                 height |-> f.height.val,
                 descendant_count |-> f.descendant_count.val,
                 descendant_size |-> f.descendant_size.val,
                 ancestor_count |-> f.ancestor_count.val,
                 ancestor_size |-> f.ancestor_size.val,
                 wtxid |-> f.wtxid.val,
                 fees |-> f.fees.val,
                 depends |-> f.depends.val,
                 spent_by |-> f.spent_by.val,
                 bip125_replaceable |-> Some(w.bip125_replaceable),
                 unbroadcast |-> Some(FALSE)])

\* early return of the first failure in statement order, else the model
MempoolEntry_return(w, f) ==
    LET failed == {i \in 1..Len(MempoolEntry_order) : IsErr(f[MempoolEntry_order[i]])}
    IN  IF failed # {} THEN Err(f[MempoolEntry_order[Min(failed)]].err)
        ELSE Ok([vsize |-> None,
                 size |-> Some(f.size.val),
                 weight |-> None,
                 time |-> f.time.val,
                 height |-> f.height.val,
                 descendant_count |-> f.descendant_count.val,
                 descendant_size |-> f.descendant_size.val,
                 ancestor_count |-> f.ancestor_count.val,
                 ancestor_size |-> f.ancestor_size.val,
                 wtxid |-> f.wtxid.val,
                 fees |-> f.fees.val,
                 depends |-> f.depends.val,
                 spent_by |-> f.spent_by.val,
                 bip125_replaceable |-> Some(w.bip125_replaceable),
                 unbroadcast |-> None])

Only(S) == CHOOSE x \in S : TRUE

MempoolEntry_into_model(w) ==
    Only({MempoolEntry_return(w, f) : f \in {MempoolEntry_fields(w)}})

\* mutation: the error of the entry is wrapped in a variant of its own
GetMempoolEntry_into_model_wrapped(w) ==
    LET inner == MempoolEntry_into_model(w)
    IN  IF IsErr(inner) THEN Err([variant |-> "MempoolEntry", cause |-> inner.err])
        ELSE Ok([entry |-> inner.val])

GetMempoolEntry_into_model(w) ==
    LET inner == MempoolEntry_into_model(w)
    IN  IF IsErr(inner) THEN Err(inner.err) ELSE Ok([entry |-> inner.val])

(***************************************************************************)
(* Wire mempool entries explored: the scenario record of the               *)
(* specification with at most MaxEdits fields replaced.                    *)
(***************************************************************************)
NumericFields == <<"size", "time", "height", "descendant_count", "descendant_size",
                   "ancestor_count", "ancestor_size">>
EntryFields == NumericFields \o <<"wtxid", "fees", "depends", "spent_by", "bip125_replaceable">>

Btc(whole, frac) == [neg |-> FALSE, whole |-> whole, frac |-> frac]

ValidFees == [base |-> Btc(0, <<0, 0, 0, 0, 1>>), modified |-> Btc(0, <<0, 0, 0, 0, 1>>),
              ancestor |-> Btc(0, <<0, 0, 0, 0, 2, 5>>), descendant |-> Btc(1, <<5>>)]
OtherFees == [base |-> Btc(2, <<>>), modified |-> Btc(0, <<0, 0, 0, 0, 0, 0, 0, 1>>),
              ancestor |-> Btc(0, <<1, 2, 3, 4, 5, 6, 7, 8>>), descendant |-> Btc(3, <<0, 7>>)]
NegativeFees == [ValidFees EXCEPT !.base = [neg |-> TRUE, whole |-> 0, frac |-> <<1>>]]
PreciseFees == [ValidFees EXCEPT !.descendant = Btc(0, <<0, 0, 0, 0, 0, 0, 0, 0, 1>>)]

ScenarioEntry ==
    [size |-> Small(250), time |-> U64(0, 1700000000), height |-> Small(800000),
     descendant_count |-> Small(1), descendant_size |-> Small(250),
     ancestor_count |-> Small(1), ancestor_size |-> Small(250),
     wtxid |-> HexA, fees |-> ValidFees, depends |-> <<>>, spent_by |-> <<>>,
     bip125_replaceable |-> TRUE]

RECURSIVE SetToSeq(_)
SetToSeq(S) ==
    IF S = {} THEN <<>>
    ELSE LET x == CHOOSE y \in S : TRUE IN <<x>> \o SetToSeq(S \ {x})

\* depends / spent_by hold distinct transaction ids: every list without
\* repetition over EntryListPool
EntryListPool == {HexB, NotHex, BadChar}

EntryLists ==
    {l \in SeqsUpTo(EntryListPool, Cardinality(EntryListPool)) :
        \A i, j \in 1..Len(l) : l[i] = l[j] => i = j}

NonEmptyEntryLists == SetToSeq(EntryLists \ {<<>>})

\* the values a field of the scenario record is replaced by
Alternatives(f) ==
    IF f = "wtxid" THEN <<HexB, HexAUpper, NotHex, BadChar, ShortHex, EmptyStr>>
    ELSE IF f = "fees" THEN <<OtherFees, NegativeFees, PreciseFees>>
    ELSE IF f \in {"depends", "spent_by"} THEN NonEmptyEntryLists
    ELSE IF f = "bip125_replaceable" THEN <<FALSE>>
    ELSE <<U32MaxWide, U64(1, 0), Pow32With(ScenarioEntry[f])>>

FieldValue(e, i) ==
    IF e[i] = 0 THEN ScenarioEntry[EntryFields[i]] ELSE Alternatives(EntryFields[i])[e[i]]

EditedEntry(e) ==
    [size |-> FieldValue(e, 1), time |-> FieldValue(e, 2), height |-> FieldValue(e, 3),
     descendant_count |-> FieldValue(e, 4), descendant_size |-> FieldValue(e, 5),
     ancestor_count |-> FieldValue(e, 6), ancestor_size |-> FieldValue(e, 7),
     wtxid |-> FieldValue(e, 8), fees |-> FieldValue(e, 9), depends |-> FieldValue(e, 10),
     spent_by |-> FieldValue(e, 11), bip125_replaceable |-> FieldValue(e, 12)]

RECURSIVE IsEdited(_, _, _, _)
\* w is the scenario record with at most k of the fields i.. replaced, given
\* the choices e made for the fields before i: per field, 0 keeps the
\* scenario value and n > 0 selects the n-th alternative
IsEdited(w, i, k, e) ==
    IF i > Len(EntryFields) THEN w = EditedEntry(e)
    ELSE \/ IsEdited(w, i + 1, k, Append(e, 0))
         \/ /\ k > 0
            /\ \E n \in 1..Len(Alternatives(EntryFields[i])) :
                   IsEdited(w, i + 1, k - 1, Append(e, n))

(***************************************************************************)
(* Verbose maps: BTreeMap<String, MempoolEntry> to BTreeMap<Txid, _>.      *)
(* A map is a function on its key set; a BTreeMap iterates in ascending    *)
(* key order, for String keys the byte-wise lexicographic order.           *)
(***************************************************************************)
StrLess(a, b) ==
    \E i \in 1..(Len(a) + 1) :
        /\ \A j \in 1..(i - 1) : j <= Len(b) /\ a[j] = b[j]
        /\ \/ i > Len(a) /\ i <= Len(b)
           \/ i <= Len(a) /\ i <= Len(b) /\ a[i] < b[i]

RECURSIVE SortedKeys(_)
SortedKeys(K) ==
    IF K = {} THEN <<>>
    ELSE LET first == CHOOSE x \in K : \A y \in K \ {x} : StrLess(x, y)
         IN  <<first>> \o SortedKeys(K \ {first})

EmptyMap == <<>>

\* mutation: an existing entry under the same key is kept
insert_keep_existing(map, k, v) ==
    [x \in (DOMAIN map) \cup {k} |-> IF x \in DOMAIN map THEN map[x] ELSE v]

\* BTreeMap::insert: an existing entry under the same key is replaced
insert(map, k, v) == [x \in (DOMAIN map) \cup {k} |-> IF x = k THEN v ELSE map[x]]

RECURSIVE map_entries_flat_from(_, _, _, _)
\* mutation: the cause of a failed value is passed on without its own variant
map_entries_flat_from(w, keys, i, map) ==
    IF i > Len(keys) THEN Ok(map)
    ELSE LET k == keys[i]
             txid == parse_hash(k)
             relative == MempoolEntry_into_model(w[k])
         IN  IF IsErr(txid) THEN Err([variant |-> "Txid", cause |-> txid.err])
             ELSE IF IsErr(relative)
             THEN Err([variant |-> "MempoolEntry", cause |-> relative.err.cause])
             ELSE map_entries_flat_from(w, keys, i + 1, insert(map, txid.val, relative.val))

RECURSIVE map_entries_value_first_from(_, _, _, _)
\* mutation: the value of an entry is converted before its key is parsed
map_entries_value_first_from(w, keys, i, map) ==
    IF i > Len(keys) THEN Ok(map)
    ELSE LET k == keys[i]
             txid == parse_hash(k)
             relative == MempoolEntry_into_model(w[k])
         IN  IF IsErr(relative) THEN Err([variant |-> "MempoolEntry", cause |-> relative.err])
             ELSE IF IsErr(txid) THEN Err([variant |-> "Txid", cause |-> txid.err])
             ELSE map_entries_value_first_from(w, keys, i + 1,
                                               insert(map, txid.val, relative.val))

RECURSIVE map_entries_from(_, _, _, _)
map_entries_from(w, keys, i, map) ==
    IF i > Len(keys) THEN Ok(map)
    ELSE LET k == keys[i]
             txid == parse_hash(k)
             relative == MempoolEntry_into_model(w[k])
         IN  IF IsErr(txid) THEN Err([variant |-> "Txid", cause |-> txid.err])
             ELSE IF IsErr(relative) THEN Err([variant |-> "MempoolEntry", cause |-> relative.err])
             ELSE map_entries_from(w, keys, i + 1, insert(map, txid.val, relative.val))

GetMempoolAncestorsVerbose_into_model(w) ==
    map_entries_from(w, SortedKeys(DOMAIN w), 1, EmptyMap)
GetMempoolDescendantsVerbose_into_model(w) ==
    map_entries_from(w, SortedKeys(DOMAIN w), 1, EmptyMap)
GetRawMempoolVerbose_into_model(w) ==
    map_entries_from(w, SortedKeys(DOMAIN w), 1, EmptyMap)

MapOps == {"GetMempoolAncestorsVerbose", "GetMempoolDescendantsVerbose", "GetRawMempoolVerbose"}

OtherEntry ==
    [size |-> Small(141), time |-> U64(0, 1700000600), height |-> Small(800001),
     descendant_count |-> Small(2), descendant_size |-> Small(391),
     ancestor_count |-> Small(3), ancestor_size |-> Small(532),
     wtxid |-> HexB, fees |-> OtherFees, depends |-> <<HexA>>, spent_by |-> <<HexB, HexA>>,
     bip125_replaceable |-> FALSE]
BadWtxidEntry == [ScenarioEntry EXCEPT !.wtxid = NotHex]
OverflowEntry == [OtherEntry EXCEPT !.descendant_count = U64(1, 0)]

MapValues == {ScenarioEntry, OtherEntry, BadWtxidEntry, OverflowEntry}

(***************************************************************************)
(* v21 testmempoolaccept: the error of one acceptance result is wrapped    *)
(* by From<MempoolAcceptanceError> for TestMempoolAcceptError.             *)
(***************************************************************************)
\* impl From<NumericError> for MempoolAcceptanceError
MempoolAcceptanceError_from(e) == [variant |-> "Numeric", cause |-> e]

\* impl From<MempoolAcceptanceError> for TestMempoolAcceptError
TestMempoolAcceptError_from(e) == [variant |-> "MempoolAcceptance", cause |-> e]

MempoolAcceptance_into_model(w) ==
    LET txid == parse_hash(w.txid)
        vsize == to_u32(w.vsize, "vsize")
        base == parse_amount(w.base)
    IN  IF IsErr(txid) THEN Err([variant |-> "Txid", cause |-> txid.err])
        ELSE IF IsErr(vsize) THEN Err(MempoolAcceptanceError_from(vsize.err))
        ELSE IF IsErr(base) THEN Err([variant |-> "Base", cause |-> base.err])
        ELSE Ok([txid |-> txid.val, allowed |-> w.allowed, vsize |-> vsize.val,
                 base |-> base.val])

RECURSIVE acceptances_from(_, _, _)
acceptances_from(list, i, acc) ==
    IF i > Len(list) THEN Ok(acc)
    ELSE LET r == MempoolAcceptance_into_model(list[i])
         IN  IF IsErr(r) THEN Err(TestMempoolAcceptError_from(r.err))
             ELSE acceptances_from(list, i + 1, Append(acc, r.val))

TestMempoolAccept_into_model(w) ==
    LET results == acceptances_from(w, 1, <<>>)
    IN  IF IsErr(results) THEN results ELSE Ok([results |-> results.val])

ValidAcceptance == [txid |-> HexA, allowed |-> TRUE, vsize |-> Small(141),
                    base |-> Btc(0, <<0, 0, 0, 1, 4, 1>>)]
AcceptancePool ==
    {ValidAcceptance,
     [ValidAcceptance EXCEPT !.txid = BadChar],
     [ValidAcceptance EXCEPT !.vsize = Pow32With(Small(141))],
     [ValidAcceptance EXCEPT !.base = [neg |-> TRUE, whole |-> 1, frac |-> <<>>]]}

(***************************************************************************)
(* Wire records built from known model values (round trip).                *)
(***************************************************************************)
Widen(n) == <<0, 0, n[1], n[2]>>

fees_to_wire(f) ==
    [base |-> display_btc(f.base), modified |-> display_btc(f.modified),
     ancestor |-> display_btc(f.ancestor), descendant |-> display_btc(f.descendant)]

entry_to_wire(m) ==
    [size |-> Widen(m.size), time |-> Widen(m.time), height |-> Widen(m.height),
     descendant_count |-> Widen(m.descendant_count),
     descendant_size |-> Widen(m.descendant_size),
     ancestor_count |-> Widen(m.ancestor_count), ancestor_size |-> Widen(m.ancestor_size),
     wtxid |-> display_hash(m.wtxid), fees |-> fees_to_wire(m.fees),
     depends |-> [i \in 1..Len(m.depends) |-> display_hash(m.depends[i])],
     spent_by |-> [i \in 1..Len(m.spent_by) |-> display_hash(m.spent_by[i])],
     bip125_replaceable |-> m.bip125_replaceable]

U32Max == <<LimbMax, LimbMax>>
IdPool == {IdA, IdB}
IdLists ==
    {l \in SeqsUpTo(IdPool, Cardinality(IdPool)) : \A i, j \in 1..Len(l) : l[i] = l[j] => i = j}
FeeValues ==
    {[base |-> 1000, modified |-> 1000, ancestor |-> 2500, descendant |-> 150000000],
     [base |-> 1, modified |-> 10, ancestor |-> 12345678, descendant |-> 2000000000]}

ModelValues ==
    [size : {U32(250), U32Max}, time : {U32(1700000000)}, height : {U32(0), U32(800000)},
     descendant_count : {U32(1)}, descendant_size : {U32(250)},
     ancestor_count : {U32(25)}, ancestor_size : {U32(101000)},
     wtxid : IdPool, fees : FeeValues, depends : IdLists, spent_by : IdLists,
     bip125_replaceable : BOOLEAN]

(***************************************************************************)
(* GetMempoolAncestorsVerbose::into_model step by step, as a thread runs   *)
(* it: the locals of one call are the position of the iterator over        *)
(* self.0, the parsed key, the converted value and the map being built.    *)
(***************************************************************************)
Tasks == {1, 2}

TaskStart ==
    [pc |-> "key", i |-> 1, txid |-> None, relative |-> None, map |-> EmptyMap,
     result |-> NoResult]

task_return(s, r) ==
    [s EXCEPT !.pc = "done", !.result = r, !.txid = None, !.relative = None]

\* the next statement of the loop of into_model, on the locals s of a call
\* whose input is w
local_step(s, w) ==
    LET keys == SortedKeys(DOMAIN w)
    IN  IF s.pc = "key"
        THEN IF s.i > Len(keys) THEN task_return(s, Ok(s.map))
             ELSE LET r == map_err(parse_hash(keys[s.i]), "Txid")
                  IN  IF IsErr(r) THEN task_return(s, r)
                      ELSE [s EXCEPT !.pc = "value", !.txid = Some(r.val)]
        ELSE IF s.pc = "value"
        THEN LET r == map_err(MempoolEntry_into_model(w[keys[s.i]]), "MempoolEntry")
             IN  IF IsErr(r) THEN task_return(s, r)
                 ELSE [s EXCEPT !.pc = "insert", !.relative = Some(r.val)]
        ELSE [s EXCEPT !.pc = "key", !.i = s.i + 1, !.txid = None, !.relative = None,
                       !.map = insert(s.map, s.txid.val, s.relative.val)]

\* mutation: the map being built is one map shared by all calls
task_step_shared_map(ts, ws, t) ==
    LET s == local_step(ts[t], ws[t])
    IN  [u \in DOMAIN ts |-> IF u = t THEN s ELSE [ts[u] EXCEPT !.map = s.map]]

\* a step of thread t changes the locals of its own call only
task_step(ts, ws, t) == [ts EXCEPT ![t] = local_step(ts[t], ws[t])]

TaskInputs ==
    {EmptyMap,
     [k \in {HexA} |-> ScenarioEntry],
     [k \in {HexB} |-> OtherEntry],
     [k \in {HexA, HexB} |-> IF k = HexA THEN OtherEntry ELSE ScenarioEntry],
     [k \in {HexA, NotHex} |-> ScenarioEntry],
     [k \in {HexA, HexB} |-> IF k = HexA THEN ScenarioEntry ELSE BadWtxidEntry]}

(***************************************************************************)
(* The conversion error types of v21 wallet, v21 raw_transactions, v24     *)
(* blockchain and v26 wallet.  An enum is a record: its variants and the   *)
(* type each one wraps.  An error value is its type, variant and cause.    *)
(***************************************************************************)
PsbtBumpFeeError ==
    [Psbt |-> "PsbtParseError", OriginalFee |-> "ParseAmountError", Fee |-> "ParseAmountError"]
SendError ==
    [Txid |-> "HexToArrayError", Hex |-> "FromHexError", Psbt |-> "PsbtParseError",
     Numeric |-> "NumericError"]
TestMempoolAcceptError == [MempoolAcceptance |-> "MempoolAcceptanceError"]
MempoolAcceptanceError ==
    [Numeric |-> "NumericError", Txid |-> "HexToArrayError", Base |-> "ParseAmountError"]
GetTxSpendingPrevoutError == [Txid |-> "HexToArrayError", SpendingTxid |-> "HexToArrayError"]
GetBalancesError ==
    [Mine |-> "ParseAmountError", WatchOnly |-> "ParseAmountError",
     LastProcessedBlock |-> "LastProcessedBlockError"]
GetTransactionError ==
    [Numeric |-> "NumericError", Amount |-> "ParseAmountError", Fee |-> "ParseAmountError",
     BlockHash |-> "HexToArrayError", Txid |-> "HexToArrayError", Wtxid |-> "HexToArrayError",
     WalletConflicts |-> "HexToArrayError", ReplacedByTxid |-> "HexToArrayError",
     ReplacesTxid |-> "HexToArrayError", MempoolConflicts |-> "HexToArrayError",
     Tx |-> "FromHexError", Details |-> "GetTransactionDetailError",
     LastProcessedBlock |-> "LastProcessedBlockError"]
GetWalletInfoError ==
    [Numeric |-> "NumericError", Balance |-> "ParseAmountError",
     UnconfirmedBalance |-> "ParseAmountError", ImmatureBalance |-> "ParseAmountError",
     PayTxFee |-> "ParseAmountError", HdSeedId |-> "HexToArrayError",
     LastProcessedBlock |-> "LastProcessedBlockError"]
LastProcessedBlockError == [Hash |-> "HexToArrayError", Height |-> "NumericError"]
WalletProcessPsbtError == [Psbt |-> "PsbtParseError", Hex |-> "FromHexError"]

\* the error of one entry of the details of a transaction, a nested record:
\* the type is imported from an earlier version's module
GetTransactionDetailError == [Amount |-> "ParseAmountError", Fee |-> "ParseAmountError"]

\* the conversion error types that are wrapped as the error of a nested record
NestedTypes == {"LastProcessedBlockError", "MempoolAcceptanceError", "GetTransactionDetailError"}

ErrorTypes ==
    {"PsbtBumpFeeError", "SendError", "TestMempoolAcceptError", "MempoolAcceptanceError",
     "GetTxSpendingPrevoutError", "GetBalancesError", "GetTransactionError",
     "GetWalletInfoError", "LastProcessedBlockError", "WalletProcessPsbtError"}

EnumOf(type) ==
    CASE type = "PsbtBumpFeeError" -> PsbtBumpFeeError
      [] type = "SendError" -> SendError
      [] type = "TestMempoolAcceptError" -> TestMempoolAcceptError
      [] type = "MempoolAcceptanceError" -> MempoolAcceptanceError
      [] type = "GetTxSpendingPrevoutError" -> GetTxSpendingPrevoutError
      [] type = "GetBalancesError" -> GetBalancesError
      [] type = "GetTransactionError" -> GetTransactionError
      [] type = "GetTransactionDetailError" -> GetTransactionDetailError
      [] type = "GetWalletInfoError" -> GetWalletInfoError
      [] type = "LastProcessedBlockError" -> LastProcessedBlockError
      [] type = "WalletProcessPsbtError" -> WalletProcessPsbtError

Variants(type) == DOMAIN EnumOf(type)

error(type, variant, cause) == [type |-> type, variant |-> variant, cause |-> cause]

\* values of the wrapped types
HexToArrayErrors == {decode_hex_array(NotHex).err, decode_hex_array(BadChar).err}
ParseAmountErrors == {parse_amount([neg |-> TRUE, whole |-> 0, frac |-> <<1>>]).err,
                      parse_amount(Btc(0, <<0, 0, 0, 0, 0, 0, 0, 0, 1>>)).err}
NumericErrors == {to_u32(U64(1, 0), "height").err, to_u32(Pow32With(Small(141)), "vsize").err}
PsbtParseErrors == {[kind |-> "Base64Encoding"], [kind |-> "PsbtEncoding"]}
FromHexErrors == {[kind |-> "OddLengthString", len |-> 3], [kind |-> "Decode"]}

LeafValues(wrapped) ==
    CASE wrapped = "HexToArrayError" -> HexToArrayErrors
      [] wrapped = "ParseAmountError" -> ParseAmountErrors
      [] wrapped = "NumericError" -> NumericErrors
      [] wrapped = "PsbtParseError" -> PsbtParseErrors
      [] wrapped = "FromHexError" -> FromHexErrors

LeafErrors(type) ==
    UNION {{error(type, v, c) : c \in LeafValues(EnumOf(type)[v])} : v \in Variants(type)}

ValuesOf(wrapped) ==
    IF wrapped \in NestedTypes
    THEN LeafErrors(wrapped)
    ELSE LeafValues(wrapped)

\* every value of a conversion error type, over the values of what it wraps
ErrorsOf(type) ==
    UNION {{error(type, v, c) : c \in ValuesOf(EnumOf(type)[v])} : v \in Variants(type)}

ErrorValues == UNION {ErrorsOf(type) : type \in ErrorTypes}

(***************************************************************************)
(* Display and Error::source of the error types.  A text is the sequence   *)
(* of its pieces: the pieces of the format string, cut around the quoted   *)
(* field name, then ": " and the cause where the cause is written.         *)
(***************************************************************************)
Backtick == <<96>>     \* the grave accent that quotes a field name

\* the format string "conversion of the <field> field failed", the field
\* name between grave accents
field_failed(field) == <<"conversion of the ", Backtick, field, Backtick, " field failed">>

\* write_err!(f, "<message>"; e): the message, then the cause
write_err(message, e) == message \o <<": ", e>>

\* write!(f, "<prefix>{}", e)
write(prefix, e) == <<prefix, e>>

PsbtBumpFeeError_fmt(e) ==
    CASE e.variant = "Psbt" -> write_err(field_failed("psbt"), e.cause)
      [] e.variant = "OriginalFee" -> write_err(field_failed("original_fee"), e.cause)
      [] e.variant = "Fee" -> write_err(field_failed("fee"), e.cause)

SendError_fmt(e) ==
    CASE e.variant = "Txid" -> write_err(field_failed("txid"), e.cause)
      [] e.variant = "Hex" -> write_err(field_failed("hex"), e.cause)
      [] e.variant = "Psbt" -> write_err(field_failed("psbt"), e.cause)
      [] e.variant = "Numeric" -> write_err(<<"numeric">>, e.cause)

TestMempoolAcceptError_fmt(e) ==
    CASE e.variant = "MempoolAcceptance" -> write_err(<<"conversion of one of the mempool acceptance results failed">>, e.cause)

MempoolAcceptanceError_fmt(e) ==
    CASE e.variant = "Numeric" -> write_err(<<"conversion of a numeric field failed">>, e.cause)
      [] e.variant = "Txid" -> write_err(field_failed("txid"), e.cause)
      [] e.variant = "Base" -> write_err(<<"conversion of the ", Backtick, "base", Backtick, " fee field failed">>,
                                        e.cause)

GetTxSpendingPrevoutError_fmt(e) ==
    CASE e.variant = "Txid" -> write_err(field_failed("outpoint"), e.cause)
      [] e.variant = "SpendingTxid" -> write_err(field_failed("spending_txid"), e.cause)

GetBalancesError_fmt(e) ==
    CASE e.variant = "Mine" -> write_err(field_failed("mine"), e.cause)
      [] e.variant = "WatchOnly" -> write_err(field_failed("watchonly"), e.cause)
      [] e.variant = "LastProcessedBlock" -> write_err(field_failed("last_processed_block"), e.cause)

GetTransactionError_fmt(e) ==
    CASE e.variant = "Numeric" -> write_err(<<"numeric">>, e.cause)
      [] e.variant = "Amount" -> write_err(field_failed("amount"), e.cause)
      [] e.variant = "Fee" -> write_err(field_failed("fee"), e.cause)
      [] e.variant = "BlockHash" -> write_err(field_failed("block_hash"), e.cause)
      [] e.variant = "Txid" -> write_err(field_failed("txid"), e.cause)
      [] e.variant = "Wtxid" -> write_err(field_failed("wtxid"), e.cause)
      [] e.variant = "WalletConflicts" -> write_err(field_failed("wallet_conflicts"), e.cause)
      [] e.variant = "ReplacedByTxid" -> write_err(field_failed("replaced_by_txid"), e.cause)
      [] e.variant = "ReplacesTxid" -> write_err(field_failed("replaces_txid"), e.cause)
      [] e.variant = "MempoolConflicts" -> write_err(field_failed("mempool_conflicts"), e.cause)
      [] e.variant = "Tx" -> write_err(field_failed("hex"), e.cause)
      [] e.variant = "Details" -> write_err(field_failed("details"), e.cause)
      [] e.variant = "LastProcessedBlock" -> write_err(field_failed("last_processed_block"), e.cause)

GetWalletInfoError_fmt(e) ==
    CASE e.variant = "Numeric" -> write_err(<<"numeric">>, e.cause)
      [] e.variant = "Balance" -> write_err(field_failed("balance"), e.cause)
      [] e.variant = "UnconfirmedBalance" -> write_err(field_failed("unconfirmed_balance"), e.cause)
      [] e.variant = "ImmatureBalance" -> write_err(field_failed("immature_balance"), e.cause)
      [] e.variant = "PayTxFee" -> write_err(field_failed("pay_tx_fee"), e.cause)
      [] e.variant = "HdSeedId" -> write_err(field_failed("hd_seed_id"), e.cause)
      [] e.variant = "LastProcessedBlock" -> write_err(field_failed("last_processed_block"), e.cause)

LastProcessedBlockError_fmt(e) ==
    CASE e.variant = "Hash" -> write_err(field_failed("hash"), e.cause)
      [] e.variant = "Height" -> write_err(field_failed("height"), e.cause)

WalletProcessPsbtError_fmt(e) ==
    CASE e.variant = "Psbt" -> write("psbt parse error: ", e.cause)
      [] e.variant = "Hex" -> write("hex decode error: ", e.cause)

\* mutation: the Numeric arm of source is `_ => None`
GetTransactionError_source_numeric_none(e) ==
    IF e.variant = "Numeric" THEN None ELSE Some(e.cause)

PsbtBumpFeeError_source(e) ==
    CASE e.variant = "Psbt" -> Some(e.cause)
      [] e.variant = "OriginalFee" -> Some(e.cause)
      [] e.variant = "Fee" -> Some(e.cause)

SendError_source(e) ==
    CASE e.variant = "Txid" -> Some(e.cause)
      [] e.variant = "Hex" -> Some(e.cause)
      [] e.variant = "Psbt" -> Some(e.cause)
      [] e.variant = "Numeric" -> Some(e.cause)

TestMempoolAcceptError_source(e) ==
    CASE e.variant = "MempoolAcceptance" -> Some(e.cause)

MempoolAcceptanceError_source(e) ==
    CASE e.variant = "Numeric" -> Some(e.cause)
      [] e.variant = "Txid" -> Some(e.cause)
      [] e.variant = "Base" -> Some(e.cause)

GetTxSpendingPrevoutError_source(e) ==
    CASE e.variant = "Txid" -> Some(e.cause)
      [] e.variant = "SpendingTxid" -> Some(e.cause)

GetBalancesError_source(e) ==
    CASE e.variant = "Mine" -> Some(e.cause)
      [] e.variant = "WatchOnly" -> Some(e.cause)
      [] e.variant = "LastProcessedBlock" -> Some(e.cause)

GetTransactionError_source(e) ==
    CASE e.variant = "Numeric" -> Some(e.cause)
      [] e.variant = "Amount" -> Some(e.cause)
      [] e.variant = "Fee" -> Some(e.cause)
      [] e.variant = "BlockHash" -> Some(e.cause)
      [] e.variant = "Txid" -> Some(e.cause)
      [] e.variant = "Wtxid" -> Some(e.cause)
      [] e.variant = "WalletConflicts" -> Some(e.cause)
      [] e.variant = "ReplacedByTxid" -> Some(e.cause)
      [] e.variant = "ReplacesTxid" -> Some(e.cause)
      [] e.variant = "MempoolConflicts" -> Some(e.cause)
      [] e.variant = "Tx" -> Some(e.cause)
      [] e.variant = "Details" -> Some(e.cause)
      [] e.variant = "LastProcessedBlock" -> Some(e.cause)

GetWalletInfoError_source(e) ==
    CASE e.variant = "Numeric" -> Some(e.cause)
      [] e.variant = "Balance" -> Some(e.cause)
      [] e.variant = "UnconfirmedBalance" -> Some(e.cause)
      [] e.variant = "ImmatureBalance" -> Some(e.cause)
      [] e.variant = "PayTxFee" -> Some(e.cause)
      [] e.variant = "HdSeedId" -> Some(e.cause)
      [] e.variant = "LastProcessedBlock" -> Some(e.cause)

\* mutation: source returns the error itself
LastProcessedBlockError_source_self(e) == Some(e)

LastProcessedBlockError_source(e) ==
    CASE e.variant = "Hash" -> Some(e.cause)
      [] e.variant = "Height" -> Some(e.cause)

WalletProcessPsbtError_source(e) ==
    CASE e.variant = "Psbt" -> Some(e.cause)
      [] e.variant = "Hex" -> Some(e.cause)

GetTransactionDetailError_source(e) ==
    CASE e.variant = "Amount" -> Some(e.cause)
      [] e.variant = "Fee" -> Some(e.cause)

fmt(e) ==
    CASE e.type = "PsbtBumpFeeError" -> PsbtBumpFeeError_fmt(e)
      [] e.type = "SendError" -> SendError_fmt(e)
      [] e.type = "TestMempoolAcceptError" -> TestMempoolAcceptError_fmt(e)
      [] e.type = "MempoolAcceptanceError" -> MempoolAcceptanceError_fmt(e)
      [] e.type = "GetTxSpendingPrevoutError" -> GetTxSpendingPrevoutError_fmt(e)
      [] e.type = "GetBalancesError" -> GetBalancesError_fmt(e)
      [] e.type = "GetTransactionError" -> GetTransactionError_fmt(e)
      [] e.type = "GetWalletInfoError" -> GetWalletInfoError_fmt(e)
      [] e.type = "LastProcessedBlockError" -> LastProcessedBlockError_fmt(e)
      [] e.type = "WalletProcessPsbtError" -> WalletProcessPsbtError_fmt(e)

source(e) ==
    CASE e.type = "PsbtBumpFeeError" -> PsbtBumpFeeError_source(e)
      [] e.type = "SendError" -> SendError_source(e)
      [] e.type = "TestMempoolAcceptError" -> TestMempoolAcceptError_source(e)
      [] e.type = "MempoolAcceptanceError" -> MempoolAcceptanceError_source(e)
      [] e.type = "GetTxSpendingPrevoutError" -> GetTxSpendingPrevoutError_source(e)
      [] e.type = "GetBalancesError" -> GetBalancesError_source(e)
      [] e.type = "GetTransactionError" -> GetTransactionError_source(e)
      [] e.type = "GetWalletInfoError" -> GetWalletInfoError_source(e)
      [] e.type = "LastProcessedBlockError" -> LastProcessedBlockError_source(e)
      [] e.type = "WalletProcessPsbtError" -> WalletProcessPsbtError_source(e)
      [] e.type = "GetTransactionDetailError" -> GetTransactionDetailError_source(e)

\* a cause that is itself a conversion error has a source of its own
IsConversionError(e) == "type" \in DOMAIN e

\* the walk along source() has not begun
NoChain == [at |-> None, steps |-> 0, seen |-> <<>>]

(***************************************************************************)
(* Wallet conversions the integration tests call.  A wire amount is the    *)
(* decimal number of bitcoin of the JSON reply; a wire output is its txid  *)
(* string and its vout.                                                    *)
(***************************************************************************)
GetReceivedByAddress_into_model(w) == parse_amount(w)
GetReceivedByLabel_into_model(w) == parse_amount(w)

ListUnspentItem_into_model(w) ==
    LET txid == map_err(parse_hash(w.txid), "Txid")
        vout == numeric(to_u32(w.vout, "vout"))
    IN  IF IsErr(txid) THEN txid
        ELSE IF IsErr(vout) THEN vout
        ELSE Ok([txid |-> txid.val, vout |-> vout.val])

RECURSIVE outputs_from(_, _, _)
outputs_from(list, i, acc) ==
    IF i > Len(list) THEN Ok(acc)
    ELSE LET r == ListUnspentItem_into_model(list[i])
         IN  IF IsErr(r) THEN r ELSE outputs_from(list, i + 1, Append(acc, r.val))

ListUnspent_into_model(w) == outputs_from(w, 1, <<>>)
ListLockUnspent_into_model(w) == outputs_from(w, 1, <<>>)

\* impl From<NumericError> for SendError
SendError_from(e) == error("SendError", "Numeric", e)

\* mutation: the range error is reported under the Amount variant
GetTransactionError_from_as_amount(e) == error("GetTransactionError", "Amount", e)

\* impl From<NumericError> for GetTransactionError
GetTransactionError_from(e) == error("GetTransactionError", "Numeric", e)

\* impl From<NumericError> for GetWalletInfoError
GetWalletInfoError_from(e) == error("GetWalletInfoError", "Numeric", e)

\* mutation: a height out of range is reported under the Hash variant
LastProcessedBlockError_from_as_hash(e) == error("LastProcessedBlockError", "Hash", e)

\* impl From<NumericError> for LastProcessedBlockError
LastProcessedBlockError_from(e) == error("LastProcessedBlockError", "Height", e)

\* the error types a NumericError converts into through `?`
NumericFromTypes ==
    {"SendError", "GetTransactionError", "GetWalletInfoError", "MempoolAcceptanceError",
     "LastProcessedBlockError"}

\* <T as From<NumericError>>::from, by target type
NumericError_into(type, e) ==
    CASE type = "SendError" -> SendError_from(e)
      [] type = "GetTransactionError" -> GetTransactionError_from(e)
      [] type = "GetWalletInfoError" -> GetWalletInfoError_from(e)
      [] type = "MempoolAcceptanceError" -> MempoolAcceptanceError_from(e)
      [] type = "LastProcessedBlockError" -> LastProcessedBlockError_from(e)

\* range errors of several fields and values
NumericCauses ==
    {to_u32(v, f).err : v \in {U64(1, 0), Pow32With(Small(141)), <<LimbMax, LimbMax, LimbMax, LimbMax>>},
                        f \in {"height", "vsize", "blockheight", "confirmations"}}

LastProcessedBlock_into_model(w) ==
    LET hash == parse_hash(w.hash)
        height == to_u32(w.height, "height")
    IN  IF IsErr(hash) THEN Err(error("LastProcessedBlockError", "Hash", hash.err))
        ELSE IF IsErr(height) THEN Err(LastProcessedBlockError_from(height.err))
        ELSE Ok([hash |-> hash.val, height |-> height.val])

\* the v26 conversion: last_processed_block is converted when the reply has it
GetWalletInfo_into_model(w) ==
    IF w.last_processed_block = None
    THEN Ok([wallet_name |-> w.wallet_name, last_processed_block |-> None])
    ELSE LET r == LastProcessedBlock_into_model(w.last_processed_block.val)
         IN  IF IsErr(r) THEN Err(error("GetWalletInfoError", "LastProcessedBlock", r.err))
             ELSE Ok([wallet_name |-> w.wallet_name, last_processed_block |-> Some(r.val)])

(***************************************************************************)
(* The daemon in regtest mode, as the wallet tests see it.                 *)
(***************************************************************************)
NoNode == [version |-> 0]

CoinbaseMaturity == 100

BlockHash(h) == [i \in 1..HashBytes |-> (h + 3 * i) % 256]
CoinbaseTxid(h) == [i \in 1..HashBytes |-> (5 * h + i) % 256]

\* Node::with_wallet: a chain of `height` blocks, an empty wallet
NewNode(version, height) ==
    [version |-> version, height |-> height, mempool |-> {}, received |-> <<>>,
     addresses |-> {}, labels |-> <<>>, locked |-> {},
     wallets |-> {"default"}, wallet_dir |-> {"default"}]

\* Node::with_wallet(Wallet::None, ..): no wallet is loaded, none is on disk
NewNodeNoWallet(version) ==
    [NewNode(version, 0) EXCEPT !.wallets = {}, !.wallet_dir = {}]

\* the wallet's spendable outputs: the coinbase outputs that have matured
Outputs(n) ==
    {[txid |-> CoinbaseTxid(h), vout |-> 0] : h \in 1..(n.height - CoinbaseMaturity)}

SatsReceived(n, address) == IF address \in DOMAIN n.received THEN n.received[address] ELSE 0

RECURSIVE SumReceived(_, _)
SumReceived(n, S) ==
    IF S = {} THEN 0
    ELSE LET a == CHOOSE x \in S : TRUE IN SatsReceived(n, a) + SumReceived(n, S \ {a})

RECURSIVE Credit(_, _)
\* the payments of the mined transactions are added to what each address received
Credit(received, payments) ==
    IF payments = {} THEN received
    ELSE LET p == CHOOSE x \in payments : TRUE
             before == IF p.to \in DOMAIN received THEN received[p.to] ELSE 0
         IN  Credit(insert(received, p.to, before + p.amount), payments \ {p})

\* generatetoaddress: the mempool is mined into a new block
generate(n, blocks) ==
    [n EXCEPT !.height = @ + blocks, !.mempool = {},
              !.received = Credit(n.received, n.mempool)]

getnewaddress(n, label) ==
    LET address == <<"bcrt1q", Cardinality(n.addresses) + 1>>
    IN  [node |-> [n EXCEPT !.addresses = @ \cup {address},
                            !.labels = insert(n.labels, address, label)],
         reply |-> Ok(address)]

sendtoaddress(n, address, amount) ==
    IF Outputs(n) = {} THEN [node |-> n, reply |-> Err("Insufficient funds")]
    ELSE [node |-> [n EXCEPT !.mempool = @ \cup {[to |-> address, amount |-> amount]}],
          reply |-> Ok(display_hash(CoinbaseTxid(n.height + 1)))]

\* getreceivedbyaddress / getreceivedbylabel with the default minconf of 1
getreceivedbyaddress(n, address) == Ok(display_btc(SatsReceived(n, address)))
getreceivedbylabel(n, label) ==
    Ok(display_btc(SumReceived(n, {a \in n.addresses : n.labels[a] = label})))

getbestblockhash(n) == Ok(display_hash(BlockHash(n.height)))

\* last_processed_block is part of the reply from version 26 on
getwalletinfo(n) ==
    Ok([wallet_name |-> "default",
        last_processed_block |->
            IF n.version >= 26
            THEN Some([hash |-> display_hash(BlockHash(n.height)), height |-> Small(n.height)])
            ELSE None])

WireOutput(o) == [txid |-> display_hash(o.txid), vout |-> Small(o.vout)]

listunspent(n) == Ok(SetToSeq({WireOutput(o) : o \in Outputs(n) \ n.locked}))
listlockunspent(n) == Ok(SetToSeq({WireOutput(o) : o \in n.locked}))

\* lockunspent false [..] locks, lockunspent true [..] unlocks
lockunspent(n, unlock, o) ==
    IF o \notin Outputs(n)
    THEN [node |-> n, reply |-> Err("Invalid parameter, unknown transaction")]
    ELSE IF ~unlock /\ o \in n.locked
    THEN [node |-> n, reply |-> Err("Invalid parameter, output already locked")]
    ELSE IF unlock /\ o \notin n.locked
    THEN [node |-> n, reply |-> Err("Invalid parameter, expected locked output")]
    ELSE [node |-> [n EXCEPT !.locked = IF unlock THEN @ \ {o} ELSE @ \cup {o}],
          reply |-> Ok(TRUE)]

\* createwallet: the wallet is written to the wallet directory and loaded
createwallet(n, name) ==
    IF name \in n.wallet_dir
    THEN [node |-> n, reply |-> Err("Wallet file verification failed, database already exists")]
    ELSE [node |-> [n EXCEPT !.wallets = @ \cup {name}, !.wallet_dir = @ \cup {name}],
          reply |-> Ok([name |-> name, warning |-> ""])]

\* unloadwallet: the reply is null up to version 20, a warning from version 21
unloadwallet(n, name) ==
    IF name \notin n.wallets
    THEN [node |-> n, reply |-> Err("Requested wallet does not exist or is not loaded")]
    ELSE [node |-> [n EXCEPT !.wallets = @ \ {name}],
          reply |-> Ok(IF n.version >= 21 THEN Some([warning |-> ""]) ELSE None)]

loadwallet(n, name) ==
    IF name \notin n.wallet_dir
    THEN [node |-> n, reply |-> Err("Wallet file verification failed, path does not exist")]
    ELSE IF name \in n.wallets
    THEN [node |-> n, reply |-> Err("Wallet file verification failed, already loaded")]
    ELSE [node |-> [n EXCEPT !.wallets = @ \cup {name}],
          reply |-> Ok([name |-> name, warning |-> ""])]

\* UnloadWallet::into_model returns the model itself, not a Result
UnloadWallet_into_model(w) == [warnings |-> <<w.warning>>]

(***************************************************************************)
(* The wallet integration tests: each is the sequence of its calls, and    *)
(* its locals.  A call that returns an error, or an unwrap of a failed     *)
(* conversion, panics and ends the test as failed.                         *)
(***************************************************************************)
\* mutation: the test asks for the amount received before a block is mined
wallet__get_received_by_address__modelled_unmined ==
    <<"fund_wallet", "new_address", "send_to_address", "get_received_by_address">>

wallet__get_received_by_address__modelled ==
    <<"fund_wallet", "new_address", "send_to_address", "mine_a_block",
      "get_received_by_address">>

wallet__get_received_by_label__modelled ==
    <<"fund_wallet", "new_address_with_label", "send_to_address", "mine_a_block",
      "get_received_by_label">>

wallet__get_wallet_info__modelled ==
    <<"mine_a_block", "get_wallet_info", "best_block_hash">>

\* mutation: the test lists the locked outputs without locking one
wallet__list_lock_unspent__modelled_no_lock ==
    <<"fund_wallet", "list_unspent", "list_lock_unspent">>

wallet__list_lock_unspent__modelled ==
    <<"fund_wallet", "list_unspent", "lock_unspent", "list_lock_unspent">>

wallet__lock_unspent ==
    <<"fund_wallet", "list_unspent", "lock_unspent", "unlock_unspent">>

\* mutation: the wallet is loaded again before it was unloaded
create_load_unload_wallet_load_first ==
    <<"create_wallet", "load_wallet", "unload_wallet">>

create_load_unload_wallet ==
    <<"create_wallet", "unload_wallet", "load_wallet">>

\* the two tests that run create_load_unload_wallet
LoadTests == {"wallet__load_wallet__modelled", "wallet__unload_wallet"}

ReceivedTests ==
    {"wallet__get_received_by_address__modelled", "wallet__get_received_by_label__modelled"}
TestNames ==
    ReceivedTests \cup {"wallet__get_wallet_info__modelled",
                        "wallet__list_lock_unspent__modelled", "wallet__lock_unspent"}
    \cup LoadTests

Script(name) ==
    CASE name = "wallet__get_received_by_address__modelled"
            -> wallet__get_received_by_address__modelled
      [] name = "wallet__get_received_by_label__modelled"
            -> wallet__get_received_by_label__modelled
      [] name = "wallet__get_wallet_info__modelled" -> wallet__get_wallet_info__modelled
      [] name = "wallet__list_lock_unspent__modelled" -> wallet__list_lock_unspent__modelled
      [] name = "wallet__lock_unspent" -> wallet__lock_unspent
      [] name \in LoadTests -> create_load_unload_wallet

\* Node::fund_wallet mines this many blocks to an address of the wallet
FundBlocks == 101

NoTest == [step |-> 0]
NoReply == <<>>

TestStart(amount) ==
    [step |-> 1, failed |-> FALSE, amount |-> amount, address |-> None, label |-> None,
     txid |-> None, vout |-> None, locked |-> None, unlocked |-> None, best_hash |-> None,
     wallet |-> None]

\* the amounts a test sends, in satoshis
SendAmounts == {1, 10000, 12345678, 100000000, 2000000000}
Versions == {25, 26, 27}
\* versions on both sides of the change of the unloadwallet reply
LoadVersions == {20, 21, 26}
\* format!("wallet-{}", rand::random::<u32>())
WalletNames == {<<"wallet-", U32(0)>>, <<"wallet-", U32(12345)>>, <<"wallet-", U32Max>>}

ToInt(u32) == u32[1] * 65536 + u32[2]

\* getwalletinfo replies as a wire response can hold them
WalletInfoPool ==
    {[wallet_name |-> "default", last_processed_block |-> None]}
    \cup {[wallet_name |-> "default",
           last_processed_block |-> Some([hash |-> h, height |-> n])] :
            h \in {HexA, NotHex, BadChar, EmptyStr}, n \in {Small(102), U64(1, 0)}}

(***************************************************************************)
(* State machine: a wire response arrives, its conversion runs once.       *)
(***************************************************************************)
InitList ==
    /\ op \in ListOps
    /\ wire \in ListInputs
    /\ expected = None

InitEntry ==
    /\ op = "MempoolEntry"
    /\ IsEdited(wire, 1, MaxEdits, <<>>)
    /\ expected = None

InitRoundTrip ==
    /\ op = "MempoolEntry"
    /\ \E m \in ModelValues :
        /\ wire = entry_to_wire(m)
        /\ expected = Some(m)

InitGetEntry ==
    /\ op = "GetMempoolEntry"
    /\ IsEdited(wire, 1, MaxEdits - 1, <<>>)
    /\ expected = None

InitMap ==
    /\ op \in MapOps
    /\ \E K \in SUBSET KeyPool :
        /\ Cardinality(K) <= MaxMap
        /\ wire \in [K -> MapValues]
    /\ expected = None

InitAccept ==
    /\ op = "TestMempoolAccept"
    /\ wire \in SeqsUpTo(AcceptancePool, MaxList)
    /\ expected = None

\* two wire responses arrive and are converted by two threads, each running
\* GetMempoolAncestorsVerbose::into_model on its own response
InitConcurrent ==
    /\ op = "Concurrent"
    /\ wire \in [Tasks -> TaskInputs]
    /\ expected = None
    /\ tasks = [t \in Tasks |-> TaskStart]

\* a conversion failed and its caller formats the error or asks its source
InitError ==
    /\ op \in {"fmt", "source"}
    /\ wire \in ErrorValues
    /\ expected = None

\* a narrowing failed inside a conversion that returns the error type
InitFrom ==
    /\ op = "from"
    /\ wire \in [type : NumericFromTypes, cause : NumericCauses]
    /\ expected = None

\* a caller is about to report an error with the chain of its causes
InitChain ==
    /\ op = "chain"
    /\ wire \in ErrorValues
    /\ expected = None

\* a getwalletinfo reply arrives from a version 26 daemon
InitWalletInfo ==
    /\ op = "GetWalletInfo"
    /\ wire \in WalletInfoPool
    /\ expected = None

\* an integration test starts: Node::with_wallet(Wallet::Default, &[])
InitTest ==
    /\ op \in TestNames
    /\ wire = NoReply
    /\ expected = None
    /\ IF op \in LoadTests
       THEN \E version \in LoadVersions : node = NewNodeNoWallet(version)
       ELSE \E version \in Versions, height \in 0..1 : node = NewNode(version, height)
    /\ \E amount \in SendAmounts :
        /\ op \notin ReceivedTests => amount = 10000
        /\ test = TestStart(amount)

Init ==
    /\ \/ /\ \/ InitList \/ InitEntry \/ InitRoundTrip \/ InitGetEntry \/ InitMap \/ InitAccept
             \/ InitError \/ InitWalletInfo \/ InitFrom \/ InitChain
          /\ tasks = <<>> /\ node = NoNode /\ test = NoTest
       \/ InitConcurrent /\ node = NoNode /\ test = NoTest
       \/ InitTest /\ tasks = <<>>
    /\ pc = "start"
    /\ result = NoResult

Return(r) ==
    /\ pc = "start"
    /\ pc' = "done"
    /\ result' = r
    /\ UNCHANGED <<op, wire, expected, tasks, node, test>>

GetMempoolAncestors ==
    /\ op = "GetMempoolAncestors"
    /\ Return(GetMempoolAncestors_into_model(wire))

GetMempoolAncestorsVerbose ==
    /\ op = "GetMempoolAncestorsVerbose"
    /\ Return(GetMempoolAncestorsVerbose_into_model(wire))

GetMempoolDescendants ==
    /\ op = "GetMempoolDescendants"
    /\ Return(GetMempoolDescendants_into_model(wire))

GetMempoolDescendantsVerbose ==
    /\ op = "GetMempoolDescendantsVerbose"
    /\ Return(GetMempoolDescendantsVerbose_into_model(wire))

GetMempoolEntry ==
    /\ op = "GetMempoolEntry"
    /\ Return(GetMempoolEntry_into_model(wire))

MempoolEntry ==
    /\ op = "MempoolEntry"
    /\ Return(MempoolEntry_into_model(wire))

GetRawMempool ==
    /\ op = "GetRawMempool"
    /\ Return(GetRawMempool_into_model(wire))

GetRawMempoolVerbose ==
    /\ op = "GetRawMempoolVerbose"
    /\ Return(GetRawMempoolVerbose_into_model(wire))

\* <E as fmt::Display>::fmt on the error value
Display_fmt ==
    /\ op = "fmt"
    /\ Return(fmt(wire))

\* <E as std::error::Error>::source on the error value
Error_source ==
    /\ op = "source"
    /\ Return(source(wire))

\* the `?` operator converts the NumericError into the enclosing error type
Error_from ==
    /\ op = "from"
    /\ Return(NumericError_into(wire.type, wire.cause))

\* the caller calls source() on the error it is at; the walk ends at a cause
\* that is not a conversion error, or where source() is absent
Follow_source ==
    /\ op = "chain"
    /\ pc = "start"
    /\ LET walk == IF result = NoResult THEN NoChain ELSE result
           at == IF walk.at = None THEN wire ELSE walk.at.val
           next == source(at)
       IN  /\ walk.steps < MaxSteps
           /\ IF next = None
              THEN /\ result' = [walk EXCEPT !.at = Some(at)]
                   /\ pc' = "done"
              ELSE /\ result' = [at |-> next, steps |-> walk.steps + 1,
                                 seen |-> Append(walk.seen, at.type)]
                   /\ pc' = IF IsConversionError(next.val) THEN "start" ELSE "done"
    /\ UNCHANGED <<op, wire, expected, tasks, node, test>>

\* one thread takes its next step; the others are where they were
TaskStep(t) ==
    /\ op = "Concurrent"
    /\ tasks[t].pc # "done"
    /\ tasks' = task_step(tasks, wire, t)
    /\ UNCHANGED <<op, wire, expected, pc, result, node, test>>

TestMempoolAccept ==
    /\ op = "TestMempoolAccept"
    /\ Return(TestMempoolAccept_into_model(wire))

\* the test is about to make the call `name`
AtStep(name) ==
    /\ op \in TestNames
    /\ pc = "start"
    /\ test.step <= Len(Script(op))
    /\ Script(op)[test.step] = name

\* the call returned: the daemon is n, the reply w, its model r, the locals t
Returns(n, w, r, t) ==
    /\ node' = n
    /\ wire' = w
    /\ result' = r
    /\ test' = [t EXCEPT !.step = @ + 1]
    /\ pc' = IF t.step = Len(Script(op)) THEN "done" ELSE "start"
    /\ UNCHANGED <<op, expected, tasks>>

\* an expect or unwrap panicked: the test ends, failed
Fails(n) ==
    /\ node' = n
    /\ test' = [test EXCEPT !.failed = TRUE]
    /\ pc' = "done"
    /\ UNCHANGED <<op, wire, result, expected, tasks>>

fund_wallet ==
    /\ AtStep("fund_wallet")
    /\ Returns(generate(node, FundBlocks), wire, result, test)

mine_a_block ==
    /\ AtStep("mine_a_block")
    /\ Returns(generate(node, 1), wire, result, test)

new_address ==
    /\ AtStep("new_address")
    /\ LET r == getnewaddress(node, "")
       IN  Returns(r.node, wire, result, [test EXCEPT !.address = Some(r.reply.val)])

new_address_with_label ==
    /\ AtStep("new_address_with_label")
    /\ LET r == getnewaddress(node, "test-label")
       IN  Returns(r.node, wire, result,
                   [test EXCEPT !.address = Some(r.reply.val), !.label = Some("test-label")])

send_to_address ==
    /\ AtStep("send_to_address")
    /\ LET r == sendtoaddress(node, test.address.val, test.amount)
       IN  IF IsErr(r.reply) THEN Fails(r.node)
           ELSE Returns(r.node, wire, result,
                        [test EXCEPT !.txid = Some(parse_hash(r.reply.val).val)])

get_received_by_address ==
    /\ AtStep("get_received_by_address")
    /\ LET json == getreceivedbyaddress(node, test.address.val)
           model == GetReceivedByAddress_into_model(json.val)
       IN  IF IsErr(model) THEN Fails(node) ELSE Returns(node, json.val, model, test)

get_received_by_label ==
    /\ AtStep("get_received_by_label")
    /\ LET json == getreceivedbylabel(node, test.label.val)
           model == GetReceivedByLabel_into_model(json.val)
       IN  IF IsErr(model) THEN Fails(node) ELSE Returns(node, json.val, model, test)

get_wallet_info ==
    /\ AtStep("get_wallet_info")
    /\ LET json == getwalletinfo(node)
           model == GetWalletInfo_into_model(json.val)
       IN  IF IsErr(model) THEN Fails(node) ELSE Returns(node, json.val, model, test)

best_block_hash ==
    /\ AtStep("best_block_hash")
    /\ LET hash == parse_hash(getbestblockhash(node).val)
       IN  IF IsErr(hash) THEN Fails(node)
           ELSE Returns(node, wire, result, [test EXCEPT !.best_hash = Some(hash.val)])

\* utxos.0[0]: the daemon lists the outputs in no particular order
list_unspent ==
    /\ AtStep("list_unspent")
    /\ LET json == listunspent(node)
           model == ListUnspent_into_model(json.val)
       IN  IF IsErr(model) \/ model.val = <<>> THEN Fails(node)
           ELSE \E i \in 1..Len(model.val) :
                    Returns(node, json.val, model,
                            [test EXCEPT !.txid = Some(model.val[i].txid),
                                         !.vout = Some(model.val[i].vout)])

lock_unspent ==
    /\ AtStep("lock_unspent")
    /\ LET r == lockunspent(node, FALSE,
                            [txid |-> test.txid.val, vout |-> ToInt(test.vout.val)])
       IN  IF IsErr(r.reply) THEN Fails(r.node)
           ELSE Returns(r.node, wire, result, [test EXCEPT !.locked = Some(r.reply.val)])

unlock_unspent ==
    /\ AtStep("unlock_unspent")
    /\ LET r == lockunspent(node, TRUE,
                            [txid |-> test.txid.val, vout |-> ToInt(test.vout.val)])
       IN  IF IsErr(r.reply) THEN Fails(r.node)
           ELSE Returns(r.node, wire, result, [test EXCEPT !.unlocked = Some(r.reply.val)])

list_lock_unspent ==
    /\ AtStep("list_lock_unspent")
    /\ LET json == listlockunspent(node)
           model == ListLockUnspent_into_model(json.val)
       IN  IF IsErr(model) THEN Fails(node) ELSE Returns(node, json.val, model, test)

create_wallet ==
    /\ AtStep("create_wallet")
    /\ \E wallet \in WalletNames :
        LET r == createwallet(node, wallet)
        IN  IF IsErr(r.reply) THEN Fails(r.node)
            ELSE Returns(r.node, wire, result, [test EXCEPT !.wallet = Some(wallet)])

\* up to version 20 the reply is the unit value and nothing is converted
unload_wallet ==
    /\ AtStep("unload_wallet")
    /\ LET r == unloadwallet(node, test.wallet.val)
       IN  IF IsErr(r.reply) THEN Fails(r.node)
           ELSE IF r.reply.val = None THEN Returns(r.node, r.reply.val, result, test)
           ELSE Returns(r.node, r.reply.val.val,
                        UnloadWallet_into_model(r.reply.val.val), test)

load_wallet ==
    /\ AtStep("load_wallet")
    /\ LET r == loadwallet(node, test.wallet.val)
       IN  IF IsErr(r.reply) THEN Fails(r.node)
           ELSE Returns(r.node, r.reply.val, result, test)

GetWalletInfo ==
    /\ op = "GetWalletInfo"
    /\ Return(GetWalletInfo_into_model(wire))

Next ==
    \/ GetMempoolAncestors
    \/ GetMempoolAncestorsVerbose
    \/ GetMempoolDescendants
    \/ GetMempoolDescendantsVerbose
    \/ GetMempoolEntry
    \/ MempoolEntry
    \/ GetRawMempool
    \/ GetRawMempoolVerbose
    \/ TestMempoolAccept
    \/ \E t \in Tasks : TaskStep(t)
    \/ Display_fmt
    \/ Error_source
    \/ Error_from
    \/ Follow_source
    \/ GetWalletInfo
    \/ fund_wallet
    \/ mine_a_block
    \/ new_address
    \/ new_address_with_label
    \/ send_to_address
    \/ get_received_by_address
    \/ get_received_by_label
    \/ get_wallet_info
    \/ best_block_hash
    \/ list_unspent
    \/ lock_unspent
    \/ unlock_unspent
    \/ list_lock_unspent
    \/ create_wallet
    \/ unload_wallet
    \/ load_wallet

Spec == Init /\ [][Next]_vars

(***************************************************************************)
(* Properties.                                                             *)
(***************************************************************************)
Done == pc = "done"
Returned == result.tag \in {"Ok", "Err"}

NumericFieldSet == {NumericFields[i] : i \in 1..Len(NumericFields)}
FallibleFields == NumericFieldSet \cup {"wtxid", "fees", "depends", "spent_by"}

IsValidHash(s) == Len(s) = 2 * HashBytes /\ \A i \in 1..Len(s) : IsHexDigit(s[i])
IsValidAmount(a) == ~a.neg /\ \A i \in 1..Len(a.frac) : i > AmountDecimals => a.frac[i] = 0
IsValidList(l) == \A i \in 1..Len(l) : IsValidHash(l[i])

FieldValid(w, f) ==
    IF f \in NumericFieldSet THEN w[f][1] = 0 /\ w[f][2] = 0
    ELSE IF f = "wtxid" THEN IsValidHash(w.wtxid)
    ELSE IF f = "fees" THEN /\ IsValidAmount(w.fees.base) /\ IsValidAmount(w.fees.modified)
                            /\ IsValidAmount(w.fees.ancestor) /\ IsValidAmount(w.fees.descendant)
    ELSE IsValidList(w[f])

InvalidFields(w) == {f \in FallibleFields : ~FieldValid(w, f)}

\* the identifier a valid hex string denotes: byte i is written at digits
\* 2 * (HashBytes - i) + 1 and 2 * (HashBytes - i) + 2
IdOf(s) ==
    [i \in 1..HashBytes |->
        16 * HexVal(s[2 * (HashBytes - i) + 1]) + HexVal(s[2 * (HashBytes - i) + 2])]

\* the error of a string that is not a valid identifier
HashErrorOf(s) ==
    IF Len(s) # 2 * HashBytes
    THEN [kind |-> "InvalidLength", expected |-> 2 * HashBytes, invalid |-> Len(s)]
    ELSE LET p == Min({i \in 1..Len(s) : ~IsHexDigit(s[i])})
         IN  [kind |-> "InvalidChar", invalid |-> s[p], pos |-> p - 1]

FirstInvalid(l) == Min({i \in 1..Len(l) : ~IsValidHash(l[i])})

\* C1: converting the scenario record with wtxid = "not-hex" fails with the
\* Wtxid variant, and the caller receives the error only, no model value.
C1_WtxidNotHexFails ==
    (Done /\ op = "MempoolEntry" /\ wire = [ScenarioEntry EXCEPT !.wtxid = NotHex])
        => /\ result.tag = "Err"
           /\ DOMAIN result = {"tag", "err"}
           /\ result.err.variant = "Wtxid"
           /\ result.err.cause = HashErrorOf(NotHex)

C1_Witness ==
    /\ Done /\ op = "MempoolEntry" /\ expected = None
    /\ wire = [ScenarioEntry EXCEPT !.wtxid = NotHex]
    /\ IsErr(result)

\* C2: the scenario record converts to a model with size = present(250),
\* wtxid = the 32-byte identifier its hex string denotes, bip125_replaceable
\* = present(true), and vsize and weight absent.
C2_ScenarioConverts ==
    (Done /\ op = "MempoolEntry" /\ wire = ScenarioEntry)
        => /\ result.tag = "Ok"
           /\ result.val.size = Some(U32(250))
           /\ result.val.wtxid = IdOf(ScenarioEntry.wtxid)
           /\ Len(result.val.wtxid) = 32
           /\ result.val.bip125_replaceable = Some(TRUE)
           /\ result.val.vsize = None
           /\ result.val.weight = None

C2_Witness ==
    /\ Done /\ op = "MempoolEntry" /\ expected = None
    /\ wire = ScenarioEntry
    /\ wire.size = <<0, 0, 0, 250>> /\ wire.depends = <<>> /\ wire.bip125_replaceable
    /\ IsOk(result)

\* C3: each of the seven numeric fields is narrowed without truncation: a
\* model holds every wire value unchanged and every such value fits 32 bits;
\* a value above the maximum makes the conversion fail, and the first such
\* field (in field order) is reported by a range error carrying its name and
\* the offending value.
NumericOverflows(w) == {i \in 1..Len(NumericFields) : ~FieldValid(w, NumericFields[i])}

C3_NarrowingNeverTruncates ==
    (Done /\ op = "MempoolEntry")
        => /\ IsOk(result) =>
                /\ NumericOverflows(wire) = {}
                /\ <<0, 0>> \o result.val.size.val = wire.size
                /\ \A i \in 2..Len(NumericFields) :
                       <<0, 0>> \o result.val[NumericFields[i]] = wire[NumericFields[i]]
           /\ NumericOverflows(wire) # {} =>
                LET f == NumericFields[Min(NumericOverflows(wire))]
                IN  /\ IsErr(result)
                    /\ result.err.variant = "Numeric"
                    /\ result.err.cause.field = f
                    /\ result.err.cause.value = wire[f]

C3_Witness ==
    /\ Done /\ op = "MempoolEntry"
    /\ wire.ancestor_size = <<0, 1, 0, 250>>
    /\ NumericOverflows(wire) = {7}
    /\ IsErr(result) /\ result.err.cause.field = "ancestor_size"

\* C4: a record with exactly one invalid field fails with the variant of
\* that field and of no other: Wtxid, Fees, Depends, SpentBy, and for an
\* out-of-range numeric field the Numeric variant labelled with that field.
VariantOf(f) ==
    IF f \in NumericFieldSet THEN "Numeric"
    ELSE IF f = "wtxid" THEN "Wtxid"
    ELSE IF f = "fees" THEN "Fees"
    ELSE IF f = "depends" THEN "Depends"
    ELSE "SpentBy"

C4_OneInvalidFieldItsVariant ==
    (Done /\ op = "MempoolEntry")
        => \A f \in FallibleFields :
              InvalidFields(wire) = {f}
                  => /\ IsErr(result)
                     /\ result.err.variant = VariantOf(f)
                     /\ f \in NumericFieldSet => result.err.cause.field = f

C4_Witness ==
    /\ Done /\ op = "MempoolEntry"
    /\ InvalidFields(wire) = {"spent_by"}
    /\ IsErr(result) /\ result.err.variant = "SpentBy"

\* C5: in a repeated field the reported error is that of the lowest-index
\* invalid element, whatever the later elements are: for the identifier
\* lists directly, for depends and spent_by under their variant.
C5_FirstFailingElement ==
    /\ (Done /\ op \in ListOps /\ ~IsValidList(wire))
          => result = Err(HashErrorOf(wire[FirstInvalid(wire)]))
    /\ (Done /\ op = "MempoolEntry" /\ InvalidFields(wire) \subseteq {"depends", "spent_by"})
          => /\ ~IsValidList(wire.depends)
                  => result = Err([variant |-> "Depends",
                                   cause |-> HashErrorOf(wire.depends[FirstInvalid(wire.depends)])])
             /\ (IsValidList(wire.depends) /\ ~IsValidList(wire.spent_by))
                  => result = Err([variant |-> "SpentBy",
                                   cause |-> HashErrorOf(wire.spent_by[FirstInvalid(wire.spent_by)])])

C5_Witness ==
    /\ Done /\ op = "GetMempoolAncestors"
    /\ Len(wire) = 3 /\ wire[1] = NotHex /\ wire[2] = HexA /\ wire[3] = BadChar
    /\ IsErr(result) /\ result.err.kind = "InvalidLength"

\* C6: a failing nested record is reported by the outer type's variant for
\* it, wrapping the error the nested conversion itself produced: a failing
\* map value as MempoolEntry(inner), failing fees as Fees(inner), a failing
\* acceptance result as MempoolAcceptance(inner).
AcceptanceValid(a) == IsValidHash(a.txid) /\ a.vsize[1] = 0 /\ a.vsize[2] = 0 /\ IsValidAmount(a.base)

C6_NestedFailureWrapped ==
    /\ (Done /\ op \in MapOps /\ (\A k \in DOMAIN wire : IsValidHash(k))
             /\ (\E k \in DOMAIN wire : InvalidFields(wire[k]) # {}))
          => /\ IsErr(result)
             /\ result.err.variant = "MempoolEntry"
             /\ \E k \in DOMAIN wire :
                    /\ InvalidFields(wire[k]) # {}
                    /\ result.err.cause = MempoolEntry_into_model(wire[k]).err
    /\ (Done /\ op = "MempoolEntry" /\ "fees" \in InvalidFields(wire)
             /\ InvalidFields(wire) \subseteq {"fees", "depends", "spent_by"})
          => result = Err([variant |-> "Fees",
                           cause |-> MempoolEntryFees_into_model(wire.fees).err])
    /\ (Done /\ op = "TestMempoolAccept" /\ (\E i \in 1..Len(wire) : ~AcceptanceValid(wire[i])))
          => LET first == Min({i \in 1..Len(wire) : ~AcceptanceValid(wire[i])})
             IN  result = Err([variant |-> "MempoolAcceptance",
                               cause |-> MempoolAcceptance_into_model(wire[first]).err])

C6_Witness ==
    /\ Done /\ op = "GetRawMempoolVerbose"
    /\ DOMAIN wire = {HexA, HexB} /\ wire[HexA] = ScenarioEntry /\ wire[HexB] = OverflowEntry
    /\ IsErr(result) /\ result.err.variant = "MempoolEntry"
    /\ result.err.cause.variant = "Numeric"

\* C7: a wire map whose keys and values are all valid converts to a model
\* map with as many entries, keyed by exactly the parsed wire keys, each
\* holding the conversion of the value under its own wire key.
C7_NoKeyCollision ==
    (Done /\ op \in MapOps /\ (\A k \in DOMAIN wire : IsValidHash(k))
          /\ (\A k \in DOMAIN wire : InvalidFields(wire[k]) = {}))
        => /\ IsOk(result)
           /\ Cardinality(DOMAIN result.val) = Cardinality(DOMAIN wire)
           /\ DOMAIN result.val = {IdOf(k) : k \in DOMAIN wire}
           /\ \A k \in DOMAIN wire :
                  result.val[IdOf(k)] = MempoolEntry_into_model(wire[k]).val

\* C8: MempoolEntry::into_model returns a model exactly when every fallible
\* field is valid, and otherwise an error without any model.
C8_ModelIffAllFieldsValid ==
    (Done /\ op = "MempoolEntry")
        => /\ Returned
           /\ IsOk(result) <=> InvalidFields(wire) = {}
           /\ IsOk(result) => DOMAIN result = {"tag", "val"}
           /\ IsErr(result) => DOMAIN result = {"tag", "err"}

C8_Witness ==
    /\ Done /\ op = "MempoolEntry"
    /\ InvalidFields(wire) = {"depends"}
    /\ Len(wire.depends) = 2 /\ IsValidHash(wire.depends[1])
    /\ IsErr(result)

\* C9: a successful conversion of an identifier list keeps length and
\* order: element i of the model list is the identifier that element i of
\* the wire list denotes, and the empty list converts to the empty list.
C9_ListOrderPreserved ==
    /\ (Done /\ op \in ListOps /\ IsOk(result))
          => /\ Len(result.val) = Len(wire)
             /\ \A i \in 1..Len(wire) : result.val[i] = IdOf(wire[i])
    /\ (Done /\ op \in ListOps /\ wire = <<>>) => result = Ok(<<>>)
    /\ (Done /\ op = "MempoolEntry" /\ IsOk(result))
          => /\ Len(result.val.depends) = Len(wire.depends)
             /\ \A i \in 1..Len(wire.depends) : result.val.depends[i] = IdOf(wire.depends[i])
             /\ Len(result.val.spent_by) = Len(wire.spent_by)
             /\ \A i \in 1..Len(wire.spent_by) : result.val.spent_by[i] = IdOf(wire.spent_by[i])

C9_Witness ==
    /\ Done /\ op = "GetRawMempool"
    /\ wire = <<HexB, HexA, HexB>>
    /\ result = Ok(<<IdB, IdA, IdB>>)

\* C10: a wire record built from valid model values converts successfully
\* and every wire-derived field of the model equals the value it was built
\* from.
C10_RoundTrip ==
    (Done /\ op = "MempoolEntry" /\ expected.tag = "Present")
        => /\ IsOk(result)
           /\ result.val.size = Some(expected.val.size)
           /\ result.val.time = expected.val.time
           /\ result.val.height = expected.val.height
           /\ result.val.descendant_count = expected.val.descendant_count
           /\ result.val.descendant_size = expected.val.descendant_size
           /\ result.val.ancestor_count = expected.val.ancestor_count
           /\ result.val.ancestor_size = expected.val.ancestor_size
           /\ result.val.wtxid = expected.val.wtxid
           /\ result.val.fees = expected.val.fees
           /\ result.val.depends = expected.val.depends
           /\ result.val.spent_by = expected.val.spent_by
           /\ result.val.bip125_replaceable = Some(expected.val.bip125_replaceable)

C10_Witness ==
    /\ Done /\ op = "MempoolEntry" /\ expected.tag = "Present"
    /\ expected.val.size = U32Max /\ expected.val.depends = <<IdB, IdA>>
    /\ expected.val.fees.descendant = 2000000000
    /\ wire.size = <<0, 0, LimbMax, LimbMax>>
    /\ IsOk(result)

\* C11: in every model the v18 MempoolEntry conversion produces (alone, under
\* GetMempoolEntry or as a value of a verbose map) vsize, weight and
\* unbroadcast are absent, size is present and holds the narrowed wire size,
\* and bip125_replaceable is present and holds the wire boolean.
V18Shape(w, m) ==
    /\ m.vsize = None /\ m.weight = None /\ m.unbroadcast = None
    /\ m.size = Some(<<w.size[3], w.size[4]>>)
    /\ w.size[1] = 0 /\ w.size[2] = 0
    /\ m.bip125_replaceable = Some(w.bip125_replaceable)
    /\ m.bip125_replaceable.val \in BOOLEAN

C11_AbsentAndPresentFields ==
    (Done /\ op \in MapOps \cup {"MempoolEntry", "GetMempoolEntry"} /\ IsOk(result))
        => /\ op = "MempoolEntry" => V18Shape(wire, result.val)
           /\ op = "GetMempoolEntry" => V18Shape(wire, result.val.entry)
           /\ op \in MapOps =>
                \A txid \in DOMAIN result.val :
                    \E k \in DOMAIN wire :
                        /\ parse_hash(k) = Ok(txid)
                        /\ V18Shape(wire[k], result.val[txid])

C11_Witness ==
    /\ Done /\ op \in MapOps /\ IsOk(result)
    /\ Cardinality(DOMAIN result.val) = 2
    /\ \E t \in DOMAIN result.val : result.val[t].bip125_replaceable = Some(FALSE)
    /\ \E t \in DOMAIN result.val : result.val[t].size = Some(U32(250))

\* C13: no conversion aborts: on every wire input, among them empty strings,
\* non-hex strings, identifiers of the wrong length, integers out of range
\* and empty collections, the call returns, and what it returns is a model
\* or an ordinary error value (a variant or kind with its cause), never a
\* panic.
ConversionOps == ListOps \cup MapOps \cup {"MempoolEntry", "GetMempoolEntry", "TestMempoolAccept"}

IsErrorValue(e) ==
    \/ "kind" \in DOMAIN e
    \/ "variant" \in DOMAIN e /\ "cause" \in DOMAIN e

C13_NoAbort ==
    op \in ConversionOps
        => \/ pc = "start" /\ result = NoResult
           \/ /\ Done
              /\ result # Panic
              /\ \/ IsOk(result) /\ DOMAIN result = {"tag", "val"}
                 \/ IsErr(result) /\ DOMAIN result = {"tag", "err"} /\ IsErrorValue(result.err)

C13_Witness ==
    /\ Done /\ op = "GetRawMempool"
    /\ Len(wire) = 2 /\ wire[1] = HexA /\ wire[2] = EmptyStr
    /\ result = Err([kind |-> "InvalidLength", expected |-> 64, invalid |-> 0])

\* C14: two conversions of independent wire responses, their steps
\* interleaved in any order, each return what the conversion returns when
\* it runs alone on its input, and a call that has not returned holds only
\* entries of its own input in the map it is building.
C14_InterleavingIndependent ==
    op = "Concurrent"
        => \A t \in Tasks :
            /\ tasks[t].pc = "done"
                 => tasks[t].result = GetMempoolAncestorsVerbose_into_model(wire[t])
            /\ \A txid \in DOMAIN tasks[t].map :
                 \E k \in DOMAIN wire[t] :
                     /\ parse_hash(k) = Ok(txid)
                     /\ MempoolEntry_into_model(wire[t][k]) = Ok(tasks[t].map[txid])

C14_Witness ==
    /\ op = "Concurrent"
    /\ \A t \in Tasks : tasks[t].pc = "done"
    /\ IsOk(tasks[1].result) /\ DOMAIN tasks[1].result.val = {IdA}
    /\ IsOk(tasks[2].result) /\ DOMAIN tasks[2].result.val = {IdB}

\* C15: the display text of every variant of every conversion error type is
\* "conversion of the <field> field failed: <cause>", the name of a wire
\* field between grave accents, for all variants of the ten error types,
\* their Numeric variants included.
C15_DisplayConvention ==
    (Done /\ op = "fmt")
        => /\ Len(result) = 7
           /\ result[3] \in STRING /\ result[3] # ""
           /\ result = write_err(field_failed(result[3]), wire.cause)

\* C16: source() of every variant of every conversion error type is present
\* and is exactly the cause the variant holds.
C16_SourceIsCause ==
    (Done /\ op = "source")
        => /\ result # None
           /\ result = Some(wire.cause)

C16_Witness ==
    /\ Done /\ op = "source"
    /\ wire.type = "GetTransactionError" /\ wire.variant = "Numeric"
    /\ wire.cause.field = "height"
    /\ result.tag = "Present" /\ result.val = wire.cause

\* what tells a MempoolEntry failure apart: its variant, and for a Numeric
\* failure the field name its cause carries
ErrLabel(e) == <<e.variant, IF e.variant = "Numeric" THEN e.cause.field ELSE "">>

\* a value that makes the field fail
BadValue(f) ==
    IF f \in NumericFieldSet THEN U64(1, 0)
    ELSE IF f = "wtxid" THEN NotHex
    ELSE IF f = "fees" THEN NegativeFees
    ELSE <<NotHex>>

\* per fallible field, the error of the scenario record with that field alone
\* made invalid
SingleFailure ==
    [f \in FallibleFields |->
        MempoolEntry_into_model([ScenarioEntry EXCEPT ![f] = BadValue(f)]).err]

\* C17 as claimed: every fallible field has a variant of its own, so that
\* the failing field, each narrowed numeric field included, is known from
\* the variant alone.
C17_FieldKnownByVariantAlone ==
    (Done /\ op = "MempoolEntry" /\ IsErr(result) /\ Cardinality(InvalidFields(wire)) = 1)
        => \A g \in FallibleFields \ InvalidFields(wire) :
               SingleFailure[g].variant # result.err.variant

\* C17 as amended: within an error type no two variants display the same
\* text, so every variant stands for its own field or group; the narrowed
\* numeric fields of a record share the Numeric variant, and a failure of
\* one field is told apart from a failure of any other by the variant
\* together with the field name a Numeric cause carries.
C17_FieldKnownByVariantAndLabel ==
    /\ (Done /\ op = "fmt")
         => \A v \in Variants(wire.type) \ {wire.variant} :
                fmt([wire EXCEPT !.variant = v]) # result
    /\ (Done /\ op = "MempoolEntry" /\ IsErr(result) /\ Cardinality(InvalidFields(wire)) = 1)
         => /\ \A g \in FallibleFields \ InvalidFields(wire) :
                   ErrLabel(SingleFailure[g]) # ErrLabel(result.err)
            /\ \A g \in InvalidFields(wire) :
                   ErrLabel(SingleFailure[g]) = ErrLabel(result.err)

C17_Witness ==
    /\ Done /\ op = "MempoolEntry"
    /\ InvalidFields(wire) = {"height"}
    /\ result.tag = "Err" /\ result.err.variant = "Numeric"
    /\ SingleFailure["time"].variant = "Numeric"
    /\ result.err.cause.field = "height" /\ SingleFailure["time"].cause.field = "time"

FailFastOrder ==
    <<"size", "time", "height", "descendant_count", "descendant_size", "ancestor_count",
      "ancestor_size", "wtxid", "fees", "depends", "spent_by">>

FirstInvalidField(w) ==
    FailFastOrder[Min({i \in 1..Len(FailFastOrder) : ~FieldValid(w, FailFastOrder[i])})]

FieldsAfter(f) ==
    {FailFastOrder[j] : j \in {i \in 1..Len(FailFastOrder) :
                                 \E k \in 1..(i - 1) : FailFastOrder[k] = f}}

\* what a later field may hold instead: valid and invalid values
OtherValues(f) ==
    IF f \in NumericFieldSet THEN {ScenarioEntry[f], U64(1, 0)}
    ELSE IF f = "wtxid" THEN {ScenarioEntry[f], HexB, NotHex, BadChar}
    ELSE IF f = "fees" THEN {ValidFees, OtherFees, NegativeFees, PreciseFees}
    ELSE {<<>>, <<HexB>>, <<NotHex>>, <<HexB, BadChar>>}

C22_FailFastInFieldOrder ==
    (Done /\ op = "MempoolEntry" /\ InvalidFields(wire) # {})
        => LET f == FirstInvalidField(wire)
           IN  /\ IsErr(result)
               /\ result.err.variant = VariantOf(f)
               /\ f \in NumericFieldSet
                    => result.err.cause.field = f /\ result.err.cause.value = wire[f]
               /\ f = "wtxid" => result.err.cause = HashErrorOf(wire.wtxid)
               /\ f \in {"depends", "spent_by"}
                    => result.err.cause = HashErrorOf(wire[f][FirstInvalid(wire[f])])
               /\ \A g \in FieldsAfter(f) : \A v \in OtherValues(g) :
                      MempoolEntry_into_model([wire EXCEPT ![g] = v]) = result

C22_Witness ==
    /\ Done /\ op = "MempoolEntry"
    /\ wire = [ScenarioEntry EXCEPT !.size = U64(1, 0), !.wtxid = NotHex]
    /\ InvalidFields(wire) = {"size", "wtxid"}
    /\ result.err.variant = "Numeric" /\ result.err.cause.field = "size"

\* C23: a verbose map conversion visits the wire entries in ascending order
\* of the wire key string and parses the key of an entry before it converts
\* the value: the error returned is that of the least failing key; it is
\* Txid when that key is malformed, whatever its value is, and MempoolEntry
\* holding the error of the value when the key is valid.
EntryFails(w, k) == ~IsValidHash(k) \/ InvalidFields(w[k]) # {}

FirstFailingKey(w) ==
    CHOOSE k \in DOMAIN w :
        /\ EntryFails(w, k)
        /\ \A j \in DOMAIN w : EntryFails(w, j) /\ j # k => StrLess(k, j)

C23_FirstFailingEntryKeyFirst ==
    (Done /\ op \in MapOps /\ \E k \in DOMAIN wire : EntryFails(wire, k))
        => LET k == FirstFailingKey(wire)
           IN  /\ IsErr(result)
               /\ IF ~IsValidHash(k)
                  THEN result.err = [variant |-> "Txid", cause |-> HashErrorOf(k)]
                  ELSE /\ result.err.variant = "MempoolEntry"
                       /\ result.err.cause.variant = VariantOf(FirstInvalidField(wire[k]))

C23_Witness ==
    /\ Done /\ op = "GetRawMempoolVerbose"
    /\ DOMAIN wire = {HexA, NotHex}
    /\ wire[HexA] = ScenarioEntry /\ wire[NotHex] = BadWtxidEntry
    /\ result = Err([variant |-> "Txid", cause |-> HashErrorOf(NotHex)])

\* C24: a successful verbose map conversion has as its key set the
\* identifiers the wire keys denote, and never more entries than the wire
\* map; where several wire keys denote one identifier the model has one
\* entry for it, holding the conversion of the value under the greatest of
\* these wire keys; the two maps have the same number of entries exactly
\* when no two wire keys denote the same identifier.
SameId(w, k) == {j \in DOMAIN w : IdOf(j) = IdOf(k)}

GreatestKey(K) == CHOOSE k \in K : \A j \in K \ {k} : StrLess(j, k)

ParseInjective(w) == \A j, k \in DOMAIN w : IdOf(j) = IdOf(k) => j = k

C24_LastInsertWins ==
    (Done /\ op \in MapOps /\ IsOk(result))
        => /\ DOMAIN result.val = {IdOf(k) : k \in DOMAIN wire}
           /\ Cardinality(DOMAIN result.val) <= Cardinality(DOMAIN wire)
           /\ \A k \in DOMAIN wire :
                  result.val[IdOf(k)]
                      = MempoolEntry_into_model(wire[GreatestKey(SameId(wire, k))]).val
           /\ Cardinality(DOMAIN result.val) = Cardinality(DOMAIN wire)
                  <=> ParseInjective(wire)

C24_Witness ==
    /\ Done /\ op = "GetMempoolAncestorsVerbose"
    /\ DOMAIN wire = {HexA, HexAUpper}
    /\ StrLess(HexAUpper, HexA)
    /\ wire[HexAUpper] = ScenarioEntry /\ wire[HexA] = OtherEntry
    /\ IsOk(result)
    /\ DOMAIN result.val = {IdA}
    /\ result.val[IdA] = MempoolEntry_into_model(OtherEntry).val

\* C25: GetMempoolEntry::into_model adds no error layer: it returns a model
\* exactly when every fallible field of the entry is valid, that model being
\* the model of the entry wrapped; otherwise it returns the error of the
\* entry's own conversion as it is, its variant the one of the first
\* invalid field and not a variant wrapping a MempoolEntryError.
C25_NoErrorLayer ==
    (Done /\ op = "GetMempoolEntry")
        => LET inner == MempoolEntry_into_model(wire)
           IN  /\ IsOk(result) <=> InvalidFields(wire) = {}
               /\ IsOk(result) <=> IsOk(inner)
               /\ IsOk(result) => result.val = [entry |-> inner.val]
               /\ IsErr(result)
                    => /\ result = inner
                       /\ result.err.variant = VariantOf(FirstInvalidField(wire))

C25_Witness ==
    /\ Done /\ op = "GetMempoolEntry"
    /\ wire = [ScenarioEntry EXCEPT !.fees = NegativeFees]
    /\ IsErr(result) /\ result.err.variant = "Fees"

\* C26: the three identifier-list conversions are one function of the wire
\* list: on the list a state holds, all three return the result the state
\* holds, the identifiers in wire order or the error of the first invalid
\* element; and the three verbose map conversions return one and the same
\* result on the wire map a state holds.
C26_SameFunction ==
    /\ (Done /\ op \in ListOps)
          => /\ GetMempoolAncestors_into_model(wire) = result
             /\ GetMempoolDescendants_into_model(wire) = result
             /\ GetRawMempool_into_model(wire) = result
             /\ result = IF IsValidList(wire)
                         THEN Ok([i \in 1..Len(wire) |-> IdOf(wire[i])])
                         ELSE Err(HashErrorOf(wire[FirstInvalid(wire)]))
    /\ (Done /\ op \in MapOps)
          => /\ GetMempoolAncestorsVerbose_into_model(wire) = result
             /\ GetMempoolDescendantsVerbose_into_model(wire) = result
             /\ GetRawMempoolVerbose_into_model(wire) = result

C26_Witness ==
    /\ Done /\ op = "GetRawMempool"
    /\ wire = <<HexA, HexB>>
    /\ result = Ok(<<IdA, IdB>>)
    /\ GetMempoolDescendants_into_model(wire) = result

\* C27: a numeric range error converted into an enclosing conversion error
\* keeps its identity: it becomes the Numeric variant of SendError,
\* GetTransactionError, GetWalletInfoError and MempoolAcceptanceError and
\* the Height variant of LastProcessedBlockError, and the cause the variant
\* holds is the NumericError itself, with the field name and the value it
\* had; so too where a conversion propagates one (testmempoolaccept's
\* vsize, getwalletinfo's last processed height).
C27_NumericErrorKept ==
    /\ (Done /\ op = "from")
          => /\ result.variant
                   = IF wire.type = "LastProcessedBlockError" THEN "Height" ELSE "Numeric"
             /\ result.cause = wire.cause
             /\ result.cause.field = wire.cause.field
             /\ result.cause.value = wire.cause.value
             /\ wire.type # "MempoolAcceptanceError"
                  => /\ result.type = wire.type
                     /\ EnumOf(wire.type)[result.variant] = "NumericError"
                     /\ source(result) = Some(wire.cause)
    /\ (Done /\ op = "TestMempoolAccept" /\ IsErr(result)
             /\ result.err.cause.variant = "Numeric")
          => \E i \in 1..Len(wire) :
                 /\ ~FitsU32(wire[i].vsize)
                 /\ result.err.cause.cause.field = "vsize"
                 /\ result.err.cause.cause.value = wire[i].vsize
    /\ (Done /\ op = "GetWalletInfo" /\ IsErr(result)
             /\ result.err.cause.variant = "Height")
          => /\ result.err.cause.cause.field = "height"
             /\ result.err.cause.cause.value = wire.last_processed_block.val.height
             /\ ~FitsU32(wire.last_processed_block.val.height)

C27_Witness ==
    /\ Done /\ op = "from"
    /\ wire.type = "LastProcessedBlockError"
    /\ wire.cause.field = "blockheight" /\ wire.cause.value = U64(1, 0)
    /\ result.variant = "Height" /\ result.cause = wire.cause

\* C28: following source() from any conversion error ends, after one call
\* for an error whose variant holds a primitive cause and after two for one
\* whose variant holds the error of a nested record, at a primitive cause:
\* a malformed-hex, amount parse, numeric range, transaction-hex decode or
\* PSBT parse error; the middle of a chain of two is the nested record's
\* error, and no error type occurs twice in a chain.
PrimitiveCauses ==
    HexToArrayErrors \cup ParseAmountErrors \cup NumericErrors \cup FromHexErrors
        \cup PsbtParseErrors

WrapsNested(e) == EnumOf(e.type)[e.variant] \in NestedTypes

====
